---- MODULE Spec2Model ----
(***************************************************************************)
(* MediaMorph: the adaptive multi-layer transformation pipeline.           *)
(*                                                                         *)
(* The module holds several state machines over one set of variables:      *)
(*   SpecReserve   sequential calls of VideoProcessor._apply_batch_        *)
(*                 protection (the session history, "reserve")             *)
(*   SpecConc      two sessions calling it on the shared VideoProcessor    *)
(*   SpecPipeline  VideoProcessor.apply_protection_layer and the layered   *)
(*                 platform pipelines built on it                          *)
(*   SpecPreset    ImageProcessor.apply_preset / VideoProcessor.apply_     *)
(*                 preset, request level                                   *)
(*   SpecFile      ImageProcessor._manipulate_file_structure               *)
(*   SpecVariation the two _get_dynamic_variation generators               *)
(*   SpecCommand   CommandParser.parse_command                             *)
(* Each specification moves its own variables and leaves the others at     *)
(* their initial values.                                                   *)
(***************************************************************************)
EXTENDS Integers, Sequences, FiniteSets, TLC

VARIABLES
    \* ---- VideoProcessor session history (video_processor.py:13) ----
    history,      \* self.session_history: sequence of fingerprints
    now,          \* last reading of time.time(), in seconds
    calls,        \* number of reserve calls made in this run
    last,         \* the last completed call: arguments, result, history before
    pushed,       \* every fingerprint appended so far, in order (history variable)
    \* ---- two sessions inside _apply_batch_protection ----
    pc,           \* per session: position inside the call
    loc,          \* per session: locals of the call
    \* ---- a layered video pipeline run ----
    run,          \* which layer list runs: a platform system, or direct calls
    pl_pc,        \* position of the run
    layer_i,      \* index of the current layer, from 1
    video,        \* the caller's `video`: the filter graph built so far
    arg,          \* apply_protection_layer's parameter `video`
    fb,           \* the fallback_func passed: "none", "identity" or "filter"
    protection_layers_applied,  \* the layer report
    outcomes,     \* per finished layer: "advanced", "fallback" or "skipped"
    fbkinds,      \* per finished layer: the fallback_func it was given
    attempts,     \* every transform attempted so far: <<layer, which>>
    input0,       \* the buffer the run started from
    \* ---- one apply_preset request ----
    rq,           \* the request: media kind and platform
    rq_pc,        \* position of the request
    rq_result,    \* "none", "output", "UnknownPlatform" (ValueError) or "Error"
    resources,    \* what the request has created: files, encoder runs, buffers
    work,         \* the processing steps performed so far, in order
    audio_protected_path,  \* "input" or "audio_output"
    img_i,        \* index of the current step of an image preset
    failed_step,  \* the step whose exception ended the request, or "none"
    \* ---- ImageProcessor._manipulate_file_structure ----
    fs_pc,        \* position inside the method
    is_jpeg,      \* file_path ends with .jpg or .jpeg
    disk,         \* the bytes of the file at file_path
    file_data,    \* the bytearray being edited
    pre_edit,     \* the bytes of the file when the method was called
    fs_failed,    \* the step that raised, or "none"
    fs_raised,    \* an exception left the method
    \* ---- the variation generator and what a request does with it ----
    generated,    \* number of _get_dynamic_variation calls made
    variation,    \* the Variation the last call returned
    layer_variations,  \* the Variation each image layer was called with
    fake_metadata,     \* the record _generate_fake_camera_metadata returned
    output_metadata,   \* the metadata records written into the output file
    \* ---- CommandParser.parse_command ----
    cp_pc,        \* position inside parse_command
    command_string,  \* the command_string argument
    media_type,   \* the media_type argument
    parts,        \* the parts of the command string still to parse
    commands,     \* the list being returned: one entry per parsed part
    \* ---- the bit-embedding and frequency layers of an image preset ----
    ly_pc,        \* "stego", "dct" or "done"
    ch,           \* the channel index c of the running loop
    lv,           \* the variation dict the layers are called with
    img_in,       \* the image the bit-embedding layer was called with
    img_array,    \* img_array of the bit-embedding layer, per channel
    modification_mask,  \* per embedded channel: the pixels selected
    seeded,       \* the arguments of np.random.seed in this request, in order
    np_random,    \* the process-wide NumPy generator: seed and draws since
    offsets,      \* what the frequency layer drew, per channel and block
    disturbed,    \* another session drew from the generator during the request
    prev,         \* the last request that ran undisturbed: inputs and offsets
    \* ---- two browser sessions on the cached processors (app.py) ----
    ap_pc,        \* per session: position inside the running handler
    ap_rq,        \* per session: the request the handler was called with
    session_state,  \* per session: st.session_state
    audio_quality,  \* VideoProcessor.audio_quality of the shared instance
    audio_bitrate,  \* per session: the bitrate its last audio encode used
    shown         \* per session: what the last script run rendered

reserveVars == <<history, now, calls, last, pushed>>
concVars == <<pc, loc>>
pipeVars == <<run, pl_pc, layer_i, video, arg, fb, protection_layers_applied,
              outcomes, fbkinds, attempts, input0>>
presetVars == <<rq, rq_pc, rq_result, resources, work, audio_protected_path,
                img_i, failed_step>>
fileVars == <<fs_pc, is_jpeg, disk, file_data, pre_edit, fs_failed, fs_raised>>
genVars == <<generated, variation, layer_variations, fake_metadata, output_metadata>>
parserVars == <<cp_pc, media_type, command_string, parts, commands>>
layerVars == <<ly_pc, ch, lv, img_in, img_array, modification_mask, seeded,
               np_random, offsets, disturbed, prev>>
appVars == <<ap_pc, ap_rq, session_state, audio_quality, audio_bitrate, shown>>
vars == <<reserveVars, concVars, pipeVars, presetVars, fileVars, genVars, parserVars,
          layerVars, appVars>>

\* what the actions of each state machine leave alone
outsideReserve == <<concVars, pipeVars, presetVars, fileVars, genVars, parserVars,
    layerVars, appVars>>
outsideConc == <<pipeVars, presetVars, fileVars, genVars, parserVars,
    layerVars, appVars>>
outsidePipe == <<reserveVars, concVars, presetVars, fileVars, genVars, parserVars,
    layerVars, appVars>>
outsidePreset == <<reserveVars, concVars, fileVars, genVars, parserVars,
    layerVars, appVars>>
outsideFile == <<reserveVars, concVars, pipeVars, presetVars, genVars, parserVars,
    layerVars, appVars>>
outsideGen == <<concVars, pipeVars, presetVars, fileVars, parserVars,
    layerVars, appVars>>
outsideParser == <<reserveVars, concVars, pipeVars, presetVars, fileVars, genVars,
    layerVars, appVars>>
outsideLayers == <<reserveVars, concVars, pipeVars, presetVars, fileVars, genVars,
    parserVars, appVars>>
outsideApp == <<reserveVars, concVars, pipeVars, presetVars, fileVars, genVars,
    parserVars, layerVars>>

(***************************************************************************)
(* Bounds of the model.                                                    *)
(***************************************************************************)
MaxCalls == 3
MaxDirectLayers == 3

(***************************************************************************)
(* Program constants of _apply_batch_protection.                           *)
(***************************************************************************)
max_history == 10
NumTypes == 8
BucketWidth == 600
RecencyWindow == 3
OffsetMin == 15
OffsetMax == 75

AllTypes == 0 .. (NumTypes - 1)

\* Platforms used for reserve calls (the argument is an arbitrary string).
ReservePlatforms == {"tiktok", "youtube"}

\* Candidate seeds: _get_dynamic_variation passes int(time) % 7 + randint(1, 4),
\* a value in 1..10; three of them, two with the same type and another quotient.
Seeds == {1, 2, 9}

\* Clock readings: two in bucket 0, one at the edge of the recency window
\* (bucket 3) and one beyond it (bucket 4).
Times == {0, 599, 1800, 2400}

Threads == {1, 2}

NoCall == [seed |-> 0, platform |-> "", t |-> 0, out |-> 0, pre |-> <<>>, fp |-> <<>>]

(***************************************************************************)
(* _apply_batch_protection, as pure operators.                             *)
(***************************************************************************)

\* mutant: the fingerprint carries the clock reading itself
TimeBucket_Seconds(t) == t

\* int(time.time() / 600)
TimeBucket(t) == t \div BucketWidth

\* session_fingerprint (lines 1268-1272): the type is the CANDIDATE seed mod 8
session_fingerprint(seed, platform, t) ==
    [platform |-> platform,
     variation_type |-> seed % NumTypes,
     timestamp |-> TimeBucket(t)]

Abs(x) == IF x < 0 THEN -x ELSE x

\* mutant: the platform of the entry is not compared
IsRecentSimilar_AnyPlatform(h, fp) ==
    /\ h.variation_type = fp.variation_type
    /\ Abs(h.timestamp - fp.timestamp) <= RecencyWindow

\* the predicate of the list comprehension at lines 1275-1278
IsRecentSimilar(h, fp) ==
    /\ h.platform = fp.platform
    /\ h.variation_type = fp.variation_type
    /\ Abs(h.timestamp - fp.timestamp) <= RecencyWindow

recent_similar(hist, fp) == SelectSeq(hist, LAMBDA h : IsRecentSimilar(h, fp))

\* used_types (line 1284): the types of the entries of recent_similar
used_types(rs) == {rs[i].variation_type : i \in 1 .. Len(rs)}

\* mutant: the used types are not removed from range(8)
available_types_All(rs) == AllTypes

\* available_types (lines 1283-1285)
available_types(rs) == AllTypes \ used_types(rs)

\* The seeds the call can return (lines 1281-1292), one per random draw.
AdjustedSeeds(seed, hist, fp) ==
    LET rs == recent_similar(hist, fp)
    IN  IF rs = <<>>
        THEN {seed}
        ELSE IF available_types(rs) # {}
             THEN {(seed \div NumTypes) * NumTypes + new_type :
                       new_type \in available_types(rs)}
             ELSE {seed + off : off \in OffsetMin .. OffsetMax}

\* available_types as the list the comprehension builds (lines 1283-1285):
\* range(8) in ascending order without the used types
available_list(rs) ==
    SelectSeq([i \in 1 .. NumTypes |-> i - 1], LAMBDA ty : ty \notin used_types(rs))

\* The random draws of one call: the position random.choice draws in the list
\* (reduced to the list's length) and the value of random.randint(15, 75).
ReserveDraws == [choice : 0 .. (NumTypes - 1), offset : OffsetMin .. OffsetMax]

\* The seed the call returns under the draws d (lines 1281-1292).
AdjustedSeed(seed, hist, fp, d) ==
    LET rs == recent_similar(hist, fp)
        av == available_list(rs)
    IN  IF rs = <<>>
        THEN seed
        ELSE IF av # <<>>
             THEN (seed \div NumTypes) * NumTypes + av[(d.choice % Len(av)) + 1]
             ELSE seed + d.offset

\* self.session_history[-self.max_history:]
LastEntries(hist) ==
    IF Len(hist) > max_history
    THEN SubSeq(hist, Len(hist) - max_history + 1, Len(hist))
    ELSE hist

\* mutant: on overflow the newest entry is dropped instead of the oldest
PushHistory_KeepOldest(hist, fp) ==
    LET a == Append(hist, fp)
    IN  IF Len(a) > max_history THEN SubSeq(a, 1, max_history) ELSE a

\* lines 1295-1299: append, then keep only the recent history
PushHistory(hist, fp) ==
    LET a == Append(hist, fp)
    IN  IF Len(a) > max_history THEN LastEntries(a) ELSE a

\* The history after sequential calls with the candidate seeds 1, 2, .., n for
\* one platform at clock reading 0: a state the program reaches from
\* construction (the history records the candidate's type, whatever is returned).
RECURSIVE HistoryAfter(_, _)
HistoryAfter(n, platform) ==
    IF n = 0 THEN <<>>
    ELSE PushHistory(HistoryAfter(n - 1, platform),
                     session_fingerprint(n, platform, 0))

\* Initial histories: after construction (line 13), and after ten calls.
InitHistories == {<<>>, HistoryAfter(max_history, "tiktok")}

(***************************************************************************)
(* Sequential reserve calls.                                               *)
(***************************************************************************)
\* The other state machines at rest.
PipeIdle ==
    /\ run = "off"
    /\ pl_pc = "off"
    /\ layer_i = 0
    /\ video = <<>>
    /\ arg = <<>>
    /\ fb = "none"
    /\ protection_layers_applied = <<>>
    /\ outcomes = <<>>
    /\ fbkinds = <<>>
    /\ attempts = <<>>
    /\ input0 = <<>>

NoRequest == [kind |-> "none", platform |-> ""]

PresetIdle ==
    /\ rq = NoRequest
    /\ rq_pc = "off"
    /\ rq_result = "none"
    /\ resources = {}
    /\ work = <<>>
    /\ audio_protected_path = "input"
    /\ img_i = 0
    /\ failed_step = "none"

FileIdle ==
    /\ fs_pc = "off"
    /\ is_jpeg = TRUE
    /\ disk = <<>>
    /\ file_data = <<>>
    /\ pre_edit = <<>>
    /\ fs_failed = "none"
    /\ fs_raised = FALSE

NoVariation == [kind |-> "none", platform |-> "", type |-> 0]
NoMetadata == [make |-> "", model |-> ""]

GenIdle ==
    /\ generated = 0
    /\ variation = NoVariation
    /\ layer_variations = <<>>
    /\ fake_metadata = NoMetadata
    /\ output_metadata = <<>>

ParserIdle ==
    /\ cp_pc = "off"
    /\ media_type = ""
    /\ command_string = ""
    /\ parts = <<>>
    /\ commands = <<>>

\* no image layer is running
LayerIdle ==
    /\ ly_pc = "done"
    /\ ch = 0
    /\ lv = [type |-> 0, intensity |-> 15, frequency_bands |-> "low"]
    /\ img_in = <<>>
    /\ img_array = <<>>
    /\ modification_mask = <<>>
    /\ seeded = <<>>
    /\ np_random = [seed |-> -1, drawn |-> 0]
    /\ offsets = <<>>
    /\ disturbed = FALSE
    /\ prev = [type |-> 0, width |-> 0, frequency_bands |-> "", intensity |-> 0,
               offsets |-> <<>>]

\* no browser session is connected
AppIdle ==
    /\ ap_pc = <<>>
    /\ ap_rq = <<>>
    /\ session_state = <<>>
    /\ audio_quality = "192k"
    /\ audio_bitrate = <<>>
    /\ shown = <<>>

NoLocals == [seed |-> 0, platform |-> "", t |-> 0, out |-> 0, fp |-> <<>>, tmp |-> <<>>]

ConcIdle ==
    /\ pc = [s \in Threads |-> "off"]
    /\ loc = [s \in Threads |-> NoLocals]

InitReserve ==
    /\ LayerIdle
    /\ AppIdle
    /\ history \in InitHistories
    /\ pushed = history
    /\ now = 0
    /\ calls = 0
    /\ last = NoCall
    /\ ConcIdle
    /\ PipeIdle
    /\ PresetIdle
    /\ FileIdle
    /\ GenIdle
    /\ ParserIdle

\* One whole call of _apply_batch_protection(variation_seed, platform).
Reserve(seed, platform, t) ==
    /\ calls < MaxCalls
    /\ t >= now
    /\ LET fp == session_fingerprint(seed, platform, t)
       IN  /\ \E out \in AdjustedSeeds(seed, history, fp) :
                 last' = [seed |-> seed, platform |-> platform, t |-> t,
                          out |-> out, pre |-> history, fp |-> fp]
           /\ history' = PushHistory(history, fp)
           /\ pushed' = Append(pushed, fp)
    /\ now' = t
    /\ calls' = calls + 1
    /\ UNCHANGED outsideReserve

ReserveCall == \E seed \in Seeds, platform \in ReservePlatforms, t \in Times :
                   Reserve(seed, platform, t)

NextReserve == ReserveCall

SpecReserve == InitReserve /\ [][NextReserve]_vars

(***************************************************************************)
(* Claims about sequential reserve calls (checked under SpecReserve).      *)
(***************************************************************************)

\* The types reserved for `platform` within the recency window of clock
\* reading t: the fingerprints of the history at most RecencyWindow buckets away.
RecentTypes(hist, platform, t) ==
    {hist[i].variation_type :
        i \in {j \in 1 .. Len(hist) :
                  /\ hist[j].platform = platform
                  /\ Abs(hist[j].timestamp - TimeBucket(t)) <= RecencyWindow}}

CalledOnce == last # NoCall

\* the last call detected a recent repeat
LastWasRepeat == CalledOnce /\ recent_similar(last.pre, last.fp) # <<>>

\* C3: when fewer than 8 distinct types were reserved for the platform within
\* the recency window, the type of the returned seed (seed mod 8) is none of
\* the types reserved for that platform within that window.
C3_NeverReturnsRecentType ==
    CalledOnce =>
        LET W == RecentTypes(last.pre, last.platform, last.t)
        IN  Cardinality(W) < NumTypes => (last.out % NumTypes) \notin W

\* C8: every call pushes one fingerprint whose variation_type is the type of
\* the seed it returns (mod 8), with the platform and the current time bucket.
C8_PushesFinalType ==
    CalledOnce =>
        /\ Len(history) > 0
        /\ history[Len(history)] =
               [platform |-> last.platform,
                variation_type |-> last.out % NumTypes,
                timestamp |-> TimeBucket(last.t)]

\* C9: the history holds at most 10 fingerprints, and they are exactly the
\* most recently pushed ones in push order (the oldest is evicted on overflow).
C9_RingBuffer ==
    /\ Len(history) <= max_history
    /\ Len(history) = (IF Len(pushed) < max_history THEN Len(pushed) ELSE max_history)
    /\ history = SubSeq(pushed, Len(pushed) - Len(history) + 1, Len(pushed))

\* C9 witness: a call has pushed onto a full history, so an entry was evicted.
C9_Witness == calls > 0 /\ Len(pushed) > max_history

\* C10: when every one of the 8 types has a fingerprint for the platform within
\* the recency window and the candidate is a recent repeat, the call applies the
\* additive offset (15 to 75) to the candidate seed instead of a replacement type.
C10_OffsetWhenAllTypesRecent ==
    (/\ LastWasRepeat
     /\ RecentTypes(last.pre, last.platform, last.t) = AllTypes)
        => (last.out - last.seed) \in OffsetMin .. OffsetMax

\* the clock readings that fall into the same 600-second bucket as t
SameBucket(t) == {t2 \in Times : t2 \div BucketWidth = t \div BucketWidth}

\* every position random.choice can draw, with the two ends of the offset range
DrawSamples == {d \in ReserveDraws : d.offset \in {OffsetMin, OffsetMax}}

\* C12: a call depends on the clock only through the bucket floor(now / 600):
\* with the same prior history, platform, candidate seed and random draws, any
\* clock reading of the same bucket gives the same returned seed, the same
\* pushed fingerprint and the same history; the seed returned by the call made
\* is the one some draw gives (a draw acts through its position or through its
\* offset, never both).
C12_TimeOnlyThroughBucket ==
    CalledOnce =>
        /\ \A t2 \in SameBucket(last.t) :
               LET fp2 == session_fingerprint(last.seed, last.platform, t2)
               IN  /\ fp2 = last.fp
                   /\ PushHistory(last.pre, fp2) = history
                   /\ \A d \in DrawSamples :
                          AdjustedSeed(last.seed, last.pre, fp2, d)
                              = AdjustedSeed(last.seed, last.pre, last.fp, d)
        /\ \/ \E c \in 0 .. (NumTypes - 1) :
                  last.out = AdjustedSeed(last.seed, last.pre, last.fp,
                                          [choice |-> c, offset |-> OffsetMin])
           \/ \E off \in OffsetMin .. OffsetMax :
                  last.out = AdjustedSeed(last.seed, last.pre, last.fp,
                                          [choice |-> 0, offset |-> off])

\* C12 witness: a call late in bucket 0 (another reading of the bucket exists)
\* found a recent repeat recorded at another reading and replaced the type.
C12_Witness ==
    /\ LastWasRepeat
    /\ last.t = 599
    /\ SameBucket(last.t) # {last.t}
    /\ last.out # last.seed

\* the history holds a fingerprint with the platform of the call, the type of
\* the candidate seed and a bucket at most 3 away from the current one
HasRecentSimilar(hist, platform, seed, t) ==
    \E i \in 1 .. Len(hist) :
        /\ hist[i].platform = platform
        /\ hist[i].variation_type = seed % NumTypes
        /\ Abs(hist[i].timestamp - (t \div BucketWidth)) <= RecencyWindow

\* C20: the call adjusts the candidate only when the history holds a
\* fingerprint with the same platform, the same type (seed mod 8) and a bucket
\* differing by at most 3; otherwise the returned seed is the input seed.
C20_AdjustsOnlyOnRepeat ==
    (CalledOnce /\ ~HasRecentSimilar(last.pre, last.platform, last.seed, last.t))
        => last.out = last.seed

\* C20 witness: the history holds the candidate's type for another platform
\* within the window and for the same platform beyond it, and the call
\* returned the seed unchanged.
C20_Witness ==
    /\ CalledOnce
    /\ ~HasRecentSimilar(last.pre, last.platform, last.seed, last.t)
    /\ \E i \in 1 .. Len(last.pre) :
           /\ last.pre[i].variation_type = last.seed % NumTypes
           /\ last.pre[i].platform # last.platform
           /\ Abs(last.pre[i].timestamp - last.fp.timestamp) <= RecencyWindow
    /\ \E i \in 1 .. Len(last.pre) :
           /\ last.pre[i].variation_type = last.seed % NumTypes
           /\ last.pre[i].platform = last.platform
           /\ Abs(last.pre[i].timestamp - last.fp.timestamp) > RecencyWindow
    /\ last.out = last.seed

InitConc ==
    /\ LayerIdle
    /\ AppIdle
    /\ history \in InitHistories
    /\ pushed = history
    /\ now = 0
    /\ calls = 0
    /\ last = NoCall
    /\ pc = [s \in Threads |-> "idle"]
    /\ loc = [s \in Threads |-> NoLocals]
    /\ PipeIdle
    /\ PresetIdle
    /\ FileIdle
    /\ GenIdle
    /\ ParserIdle

\* lines 1268-1292: build the fingerprint, scan the history, adjust the seed
ConcScan(s, seed, platform, t) ==
    /\ pc[s] = "idle"
    /\ t >= now
    /\ LET fp == session_fingerprint(seed, platform, t)
       IN  \E out \in AdjustedSeeds(seed, history, fp) :
               loc' = [loc EXCEPT ![s] = [seed |-> seed, platform |-> platform,
                                          t |-> t, out |-> out, fp |-> fp,
                                          tmp |-> <<>>]]
    /\ now' = t
    /\ pc' = [pc EXCEPT ![s] = "scanned"]
    /\ UNCHANGED <<history, calls, last, pushed, outsideConc>>

\* line 1295: self.session_history.append(session_fingerprint)
ConcAppend(s) ==
    /\ pc[s] = "scanned"
    /\ history' = Append(history, loc[s].fp)
    /\ pushed' = Append(pushed, loc[s].fp)
    /\ pc' = [pc EXCEPT ![s] = "appended"]
    /\ UNCHANGED <<now, calls, last, loc, outsideConc>>

\* line 1298 and the right-hand side of 1299: the slice is a new list
ConcSlice(s) ==
    /\ pc[s] = "appended"
    /\ Len(history) > max_history
    /\ loc' = [loc EXCEPT ![s].tmp = LastEntries(history)]
    /\ pc' = [pc EXCEPT ![s] = "sliced"]
    /\ UNCHANGED <<history, now, calls, last, pushed, outsideConc>>

\* line 1298 false, line 1301: return variation_seed
ConcReturn(s) ==
    /\ pc[s] = "appended"
    /\ Len(history) <= max_history
    /\ pc' = [pc EXCEPT ![s] = "done"]
    /\ UNCHANGED <<history, now, calls, last, pushed, loc, outsideConc>>

\* line 1299, the assignment, then line 1301
ConcStore(s) ==
    /\ pc[s] = "sliced"
    /\ history' = loc[s].tmp
    /\ pc' = [pc EXCEPT ![s] = "done"]
    /\ UNCHANGED <<now, calls, last, pushed, loc, outsideConc>>

ConcScanStep == \E s \in Threads, seed \in Seeds, platform \in ReservePlatforms,
                   t \in Times : ConcScan(s, seed, platform, t)
ConcAppendStep == \E s \in Threads : ConcAppend(s)
ConcSliceStep == \E s \in Threads : ConcSlice(s)
ConcReturnStep == \E s \in Threads : ConcReturn(s)
ConcStoreStep == \E s \in Threads : ConcStore(s)

NextConc ==
    \/ ConcScanStep
    \/ ConcAppendStep
    \/ ConcSliceStep
    \/ ConcReturnStep
    \/ ConcStoreStep

SpecConc == InitConc /\ [][NextConc]_vars

\* The outcome of running the call of session a and then the call of session b,
\* each as a whole, from history h0: is it the outcome observed?
SerialOutcome(h0, a, b) ==
    LET h1 == PushHistory(h0, loc[a].fp)
        h2 == PushHistory(h1, loc[b].fp)
    IN  /\ loc[a].out \in AdjustedSeeds(loc[a].seed, h0, loc[a].fp)
        /\ loc[b].out \in AdjustedSeeds(loc[b].seed, h1, loc[b].fp)
        /\ history = h2

BothDone == \A s \in Threads : pc[s] = "done"

\* C4: under every interleaving of two calls the outcome (the seeds returned
\* and the resulting history) is that of one of the two serial orders: no
\* fingerprint is lost and the later scan sees the earlier call's fingerprint.
C4_Serializable ==
    BothDone =>
        LET h0 == SubSeq(pushed, 1, Len(pushed) - 2)
        IN  SerialOutcome(h0, 1, 2) \/ SerialOutcome(h0, 2, 1)

(***************************************************************************)
(* The layered video pipeline: apply_protection_layer (lines 192-208) and  *)
(* the platform systems that call it once per layer and then append the    *)
(* layer's name to protection_layers_applied.  The buffer is the ffmpeg     *)
(* filter graph: a sequence of the filter descriptors appended so far.     *)
(* A run is one of the three platform systems, or a sequence of direct     *)
(* calls of apply_protection_layer with any fallback_func (none, a no-op,  *)
(* or a filter).                                                           *)
(***************************************************************************)

\* the names each system appends to protection_layers_applied, in order
TikTokLayers == <<"FGSM-Adversarial", "Neural-Confusion", "Transfer-Learning",
                  "TikTok-Targeting", "Compression-Resistant", "Polymorphic",
                  "RealtimeBypass">>
InstagramLayers == <<"Square", "IG-FGSM", "IG-Neural", "IG-Transfer", "IG-Targeting">>
YouTubeLayers == <<"Aspect", "YT-ContentID-FGSM", "YT-Neural", "YT-Transfer",
                   "YT-Targeting">>
DirectLayers == [i \in 1 .. MaxDirectLayers |-> "direct"]

Systems == {"tiktok", "instagram", "youtube"}
Runs == Systems \cup {"direct"}

Layers(r) ==
    CASE r = "tiktok" -> TikTokLayers
      [] r = "instagram" -> InstagramLayers
      [] r = "youtube" -> YouTubeLayers
      [] OTHER -> DirectLayers

\* the fallback_func a layer is given: the systems always pass a filter
FallbackKinds(r) == IF r \in Systems THEN {"filter"} ELSE {"none", "identity", "filter"}

\* the buffers a run can start from: the systems start from input_stream.video
InputBuffers(r) == IF r \in Systems THEN {<<>>} ELSE {<<>>, <<"given">>}

\* filter_func(video): the advanced transform appends its filter(s)
filter_func(v, i) == Append(v, <<i, "advanced">>)

\* mutant: the fallback works on what the advanced transform had built
fallback_func_OnAdvancedResult(v, i, kind) ==
    IF kind = "identity"
    THEN Append(v, <<i, "advanced">>)
    ELSE Append(Append(v, <<i, "advanced">>), <<i, "fallback">>)

\* fallback_func(video): a no-op returns its argument, a filter appends
fallback_func(v, i, kind) ==
    IF kind = "identity" THEN v ELSE Append(v, <<i, "fallback">>)

\* mutant: the layer is given up without returning the buffer (None)
ContinueWithout_Nothing(v) == <<>>

\* lines 207-208: "Continuing without this layer", return video
ContinueWithout(v) == v

InitPipeline ==
    /\ LayerIdle
    /\ AppIdle
    /\ history = <<>>
    /\ pushed = <<>>
    /\ now = 0
    /\ calls = 0
    /\ last = NoCall
    /\ ConcIdle
    /\ run \in Runs
    /\ input0 \in InputBuffers(run)
    /\ video = input0
    /\ pl_pc = "layer"
    /\ layer_i = 1
    /\ arg = <<>>
    /\ fb = "none"
    /\ protection_layers_applied = <<>>
    /\ outcomes = <<>>
    /\ fbkinds = <<>>
    /\ attempts = <<>>
    /\ PresetIdle
    /\ FileIdle
    /\ GenIdle
    /\ ParserIdle

\* the call video = self.apply_protection_layer(video, name, advanced, fallback)
CallLayer(kind) ==
    /\ pl_pc = "layer"
    /\ kind \in FallbackKinds(run)
    /\ arg' = video
    /\ fb' = kind
    /\ pl_pc' = "advanced"
    /\ UNCHANGED <<run, layer_i, video, protection_layers_applied, outcomes,
                   fbkinds, attempts, input0, outsidePipe>>

\* mutant: the fallback is tried although the advanced transform succeeded
AdvancedSucceeds_ThenFallback ==
    /\ pl_pc = "advanced"
    /\ video' = filter_func(arg, layer_i)
    /\ attempts' = Append(attempts, <<layer_i, "advanced">>)
    /\ outcomes' = Append(outcomes, "advanced")
    /\ fbkinds' = Append(fbkinds, fb)
    /\ pl_pc' = "fallback"
    /\ UNCHANGED <<run, layer_i, arg, fb, protection_layers_applied, input0,
                   outsidePipe>>

\* lines 194-197: filter_func(video) returns, its result is returned
AdvancedSucceeds ==
    /\ pl_pc = "advanced"
    /\ video' = filter_func(arg, layer_i)
    /\ attempts' = Append(attempts, <<layer_i, "advanced">>)
    /\ outcomes' = Append(outcomes, "advanced")
    /\ fbkinds' = Append(fbkinds, fb)
    /\ pl_pc' = "returned"
    /\ UNCHANGED <<run, layer_i, arg, fb, protection_layers_applied, input0,
                   outsidePipe>>

\* lines 198-200: filter_func(video) raises and a fallback_func was given
AdvancedFails ==
    /\ pl_pc = "advanced"
    /\ fb # "none"
    /\ attempts' = Append(attempts, <<layer_i, "advanced">>)
    /\ pl_pc' = "fallback"
    /\ UNCHANGED <<run, layer_i, video, arg, fb, protection_layers_applied,
                   outcomes, fbkinds, input0, outsidePipe>>

\* lines 198-200, 207-208: filter_func(video) raises and there is no fallback
AdvancedFailsNoFallback ==
    /\ pl_pc = "advanced"
    /\ fb = "none"
    /\ attempts' = Append(attempts, <<layer_i, "advanced">>)
    /\ video' = ContinueWithout(arg)
    /\ outcomes' = Append(outcomes, "skipped")
    /\ fbkinds' = Append(fbkinds, fb)
    /\ pl_pc' = "returned"
    /\ UNCHANGED <<run, layer_i, arg, fb, protection_layers_applied, input0,
                   outsidePipe>>

\* lines 201-204: fallback_func(video) returns, its result is returned
FallbackSucceeds ==
    /\ pl_pc = "fallback"
    /\ video' = fallback_func(arg, layer_i, fb)
    /\ attempts' = Append(attempts, <<layer_i, "fallback">>)
    /\ outcomes' = Append(outcomes, "fallback")
    /\ fbkinds' = Append(fbkinds, fb)
    /\ pl_pc' = "returned"
    /\ UNCHANGED <<run, layer_i, arg, fb, protection_layers_applied, input0,
                   outsidePipe>>

\* lines 205-208: fallback_func(video) raises too, return video
FallbackFails ==
    /\ pl_pc = "fallback"
    /\ video' = ContinueWithout(arg)
    /\ attempts' = Append(attempts, <<layer_i, "fallback">>)
    /\ outcomes' = Append(outcomes, "skipped")
    /\ fbkinds' = Append(fbkinds, fb)
    /\ pl_pc' = "returned"
    /\ UNCHANGED <<run, layer_i, arg, fb, protection_layers_applied, input0,
                   outsidePipe>>

\* mutant: a skipped layer ends the run
RecordLayer_StopsAfterSkip ==
    /\ pl_pc = "returned"
    /\ run \in Systems
    /\ protection_layers_applied' =
           Append(protection_layers_applied, Layers(run)[layer_i])
    /\ IF layer_i < Len(Layers(run)) /\ outcomes[Len(outcomes)] # "skipped"
       THEN /\ layer_i' = layer_i + 1
            /\ pl_pc' = "layer"
       ELSE /\ layer_i' = layer_i
            /\ pl_pc' = "layers_done"
    /\ UNCHANGED <<run, video, arg, fb, outcomes, fbkinds, attempts, input0,
                   outsidePipe>>

\* the statement after the call in a platform system (line 260 and its
\* likes): protection_layers_applied.append(name), whatever the call did
RecordLayer ==
    /\ pl_pc = "returned"
    /\ run \in Systems
    /\ protection_layers_applied' =
           Append(protection_layers_applied, Layers(run)[layer_i])
    /\ IF layer_i < Len(Layers(run))
       THEN /\ layer_i' = layer_i + 1
            /\ pl_pc' = "layer"
       ELSE /\ layer_i' = layer_i
            /\ pl_pc' = "layers_done"
    /\ UNCHANGED <<run, video, arg, fb, outcomes, fbkinds, attempts, input0,
                   outsidePipe>>

\* direct calls: the caller goes on to its next layer, and keeps no report
NextDirectLayer ==
    /\ pl_pc = "returned"
    /\ run = "direct"
    /\ IF layer_i < Len(Layers(run))
       THEN /\ layer_i' = layer_i + 1
            /\ pl_pc' = "layer"
       ELSE /\ layer_i' = layer_i
            /\ pl_pc' = "layers_done"
    /\ UNCHANGED <<run, video, arg, fb, protection_layers_applied, outcomes,
                   fbkinds, attempts, input0, outsidePipe>>

CallLayerStep == \E kind \in {"none", "identity", "filter"} : CallLayer(kind)

NextPipeline ==
    \/ CallLayerStep
    \/ AdvancedSucceeds
    \/ AdvancedFails
    \/ AdvancedFailsNoFallback
    \/ FallbackSucceeds
    \/ FallbackFails
    \/ RecordLayer
    \/ NextDirectLayer

SpecPipeline == InitPipeline /\ [][NextPipeline]_vars

LayersDone == pl_pc = "layers_done"

\* layer i failed its advanced transform and its fallback changed nothing:
\* the fallback failed, was not given, or is the identity
LayerWithoutEffect(i) ==
    \/ outcomes[i] = "skipped"
    \/ outcomes[i] = "fallback" /\ fbkinds[i] = "identity"

\* C1: apply_protection_layer never raises; when the advanced transform fails
\* and the fallback fails too (or none is given) it returns the input buffer
\* unchanged, so a run in which every advanced transform fails and every
\* fallback is the identity (or fails, or is absent) ends with the input buffer.
C1_FailureReturnsInput ==
    /\ (pl_pc = "returned" /\ outcomes[Len(outcomes)] = "skipped") => video = arg
    /\ (LayersDone /\ \A i \in 1 .. Len(outcomes) : LayerWithoutEffect(i))
           => video = input0

\* C1 witness: a finished run from a non-empty buffer in which every advanced
\* transform failed, with a skipped layer and an identity fallback among them.
C1_Witness ==
    /\ LayersDone
    /\ input0 # <<>>
    /\ \A i \in 1 .. Len(outcomes) : LayerWithoutEffect(i)
    /\ \E i \in 1 .. Len(outcomes) : outcomes[i] = "skipped" /\ fbkinds[i] = "none"
    /\ \E i \in 1 .. Len(outcomes) : outcomes[i] = "skipped" /\ fbkinds[i] # "none"
    /\ \E i \in 1 .. Len(outcomes) : outcomes[i] = "fallback"

\* C2: at the end of a platform system's run the layer report holds a layer's
\* name if and only if that layer's advanced or fallback transform succeeded.
C2_ReportIffSucceeded ==
    (LayersDone /\ run \in Systems) =>
        \A i \in 1 .. Len(Layers(run)) :
            (\E k \in 1 .. Len(protection_layers_applied) :
                 protection_layers_applied[k] = Layers(run)[i])
                <=> outcomes[i] # "skipped"

\* A run is one thread of control: each call returns or raises, and the
\* statement after it is executed.
SpecPipelineLive == SpecPipeline /\ WF_vars(NextPipeline)

\* the layers whose advanced transform was attempted, in the order of the attempts
AdvancedAttempts == SelectSeq(attempts, LAMBDA a : a[2] = "advanced")

\* the transforms attempted for layer i, in order
LayerAttempts(i) == SelectSeq(attempts, LAMBDA a : a[1] = i)

\* C16: a pipeline run always terminates, and at its end every declared layer
\* has been attempted exactly once, in the declared order, whatever transforms
\* failed: no failure keeps a later layer from being attempted.
C16_EveryLayerAttemptedInOrder ==
    /\ [](LayersDone =>
             /\ AdvancedAttempts =
                    [i \in 1 .. Len(Layers(run)) |-> <<i, "advanced">>]
             /\ Len(outcomes) = Len(Layers(run)))
    /\ [](Len(AdvancedAttempts) <= layer_i)
    /\ <>LayersDone

\* C16 witness: a platform system ended after its first layer was skipped, its
\* second needed the fallback and its last succeeded at once.
C16_Witness ==
    /\ LayersDone
    /\ run \in Systems
    /\ outcomes[1] = "skipped"
    /\ outcomes[2] = "fallback"
    /\ outcomes[Len(outcomes)] = "advanced"

\* C18: within a layer the advanced transform is attempted first and exactly
\* once; the fallback is attempted only after the advanced transform failed, and
\* at most once; the layer ends Succeeded with the buffer the succeeding
\* transform returned, or Skipped with the buffer unchanged.
C18_LayerStateMachine ==
    /\ \A i \in 1 .. Len(outcomes) :
           LET at == LayerAttempts(i)
           IN  /\ outcomes[i] \in {"advanced", "fallback", "skipped"}
               /\ outcomes[i] = "advanced" => at = << <<i, "advanced">> >>
               /\ outcomes[i] = "fallback" =>
                      at = << <<i, "advanced">>, <<i, "fallback">> >>
               /\ outcomes[i] = "skipped" =>
                      at = IF fbkinds[i] = "none"
                           THEN << <<i, "advanced">> >>
                           ELSE << <<i, "advanced">>, <<i, "fallback">> >>
    /\ pl_pc = "advanced" => LayerAttempts(layer_i) = <<>>
    /\ pl_pc = "fallback" => LayerAttempts(layer_i) = << <<layer_i, "advanced">> >>
    /\ pl_pc = "returned" =>
           /\ Len(outcomes) = layer_i
           /\ video = CASE outcomes[layer_i] = "advanced" ->
                               Append(arg, <<layer_i, "advanced">>)
                         [] outcomes[layer_i] = "fallback" ->
                               IF fbkinds[layer_i] = "identity"
                               THEN arg
                               ELSE Append(arg, <<layer_i, "fallback">>)
                         [] OTHER -> arg

\* C18 witness: a layer has just ended through its fallback filter, after an
\* earlier layer was skipped with both transforms attempted and another
\* succeeded at once.
C18_Witness ==
    /\ pl_pc = "returned"
    /\ outcomes[layer_i] = "fallback"
    /\ fbkinds[layer_i] = "filter"
    /\ \E i \in 1 .. (layer_i - 1) : outcomes[i] = "skipped" /\ fbkinds[i] # "none"
    /\ \E i \in 1 .. (layer_i - 1) : outcomes[i] = "advanced"

\* C19: the fallback is handed the pre-layer buffer the advanced transform was
\* handed; nothing the failed advanced attempt did shows in the fallback's
\* input, in its result, or in the buffer returned when the layer is skipped.
C19_FallbackSeesPreLayerBuffer ==
    /\ pl_pc \in {"advanced", "fallback"} => arg = video
    /\ \A i \in 1 .. Len(outcomes) :
           outcomes[i] # "advanced" =>
               \A k \in (Len(input0) + 1) .. Len(video) :
                   video[k] # <<i, "advanced">>
    /\ (pl_pc = "returned" /\ outcomes[layer_i] # "advanced") =>
           \/ video = arg
           \/ video = Append(arg, <<layer_i, "fallback">>)

\* C19 witness: on a non-empty buffer the advanced transform failed and the
\* fallback filter returned that buffer with its own filter appended.
C19_Witness ==
    /\ pl_pc = "returned"
    /\ arg # <<>>
    /\ outcomes[layer_i] = "fallback"
    /\ <<layer_i, "advanced">> \in {attempts[k] : k \in 1 .. Len(attempts)}
    /\ video = Append(arg, <<layer_i, "fallback">>)

(***************************************************************************)
(* One request: ImageProcessor.apply_preset (image_processor.py:16-27) or  *)
(* VideoProcessor.apply_preset (video_processor.py:94-119).                *)
(***************************************************************************)
KnownPlatforms == {"tiktok", "instagram", "youtube"}
RequestPlatforms == KnownPlatforms \cup {"facebook"}
MediaKinds == {"image", "video"}

\* the platform-specific layer of an image preset
SpecificEvasion(p) ==
    CASE p = "tiktok" -> "tiktok_specific_evasion"
      [] p = "instagram" -> "instagram_specific_evasion"
      [] OTHER -> "youtube_specific_evasion"

\* the protection layers of an image preset, in the order they are called
ImageLayers(p) ==
    <<"adversarial_perturbations", "reversible_steganography",
      "hybrid_dct_manipulation", "triple_stage_processing", SpecificEvasion(p),
      "metadata_evasion">>

\* the statements of an image preset inside `with Image.open(...)`, after the
\* conversion to RGB: instagram crops to a square first
ImageSteps(p) ==
    (IF p = "instagram" THEN <<"crop_to_square">> ELSE <<>>)
        \o <<"get_dynamic_variation">>
        \o ImageLayers(p)
        \o <<"save", "manipulate_file_structure">>

\* steps that cannot raise: the variation is built from the clock and random
\* draws only, and _manipulate_file_structure swallows every Exception
NeverRaises == {"get_dynamic_variation", "manipulate_file_structure"}

\* the platform argument is an arbitrary string
GeneratorPlatforms == {"tiktok", "instagram", "facebook"}

\* random.randint(1, 4) and random.randint(1, 3)
VideoDraws == 1 .. 4
ImageDraws == 1 .. 3

\* video_processor.py:1049: int(time.time()) % 7 + random.randint(1, 4)
video_variation_seed(t, r) == (t % 7) + r

\* image_processor.py:743: int(time.time()) % 5 + random.randint(1, 3)
image_variation_seed(t, r) == (t % 5) + r

\* video_processor.py:1054, 1158, 1181: which dict is returned
video_variation_settings(platform) ==
    IF platform \in {"tiktok", "instagram"} THEN platform ELSE "youtube"

\* image_processor.py:772: variations.get(platform, variations['tiktok'])
image_variation_settings(platform) ==
    IF platform \in {"tiktok", "instagram", "youtube"} THEN platform ELSE "tiktok"

\* mutant: the type is the seed itself, not reduced
image_variation_type_Unreduced(platform, seed) == seed

\* image_processor.py:747, 755, 763: the 'type' of the dict returned
image_variation_type(platform, seed) ==
    IF image_variation_settings(platform) = "tiktok" THEN seed % 5 ELSE seed % 4

\* image_processor.py:1193-1229: make and model of the camera_database entries
camera_database ==
    <<[make |-> "Apple", model |-> "iPhone 14 Pro"],
      [make |-> "Apple", model |-> "iPhone 13 Pro Max"],
      [make |-> "Samsung", model |-> "SM-G998B"],
      [make |-> "Google", model |-> "Pixel 7 Pro"],
      [make |-> "Canon", model |-> "EOS R6"],
      [make |-> "Sony", model |-> "ILCE-7M4"],
      [make |-> "Nikon", model |-> "D850"]>>

\* image_processor.py:1232, 1246-1268: the record built for a variation
\* (camera_database[variation['type'] % len(camera_database)])
generate_fake_camera_metadata(v) ==
    camera_database[(v.type % Len(camera_database)) + 1]

\* image_processor.py:1185-1187, 60: the record is bound to a local and the
\* stripped image is returned; img.save is given no exif, so the records
\* written into the output file are none
saved_metadata(fake) == <<>>

InitPreset ==
    /\ LayerIdle
    /\ AppIdle
    /\ history = <<>>
    /\ pushed = <<>>
    /\ now = 0
    /\ calls = 0
    /\ last = NoCall
    /\ ConcIdle
    /\ PipeIdle
    /\ FileIdle
    /\ GenIdle
    /\ ParserIdle
    /\ rq \in [kind : MediaKinds, platform : RequestPlatforms]
    /\ rq_pc = "start"
    /\ rq_result = "none"
    /\ resources = {}
    /\ work = <<>>
    /\ audio_protected_path = "input"
    /\ img_i = 0
    /\ failed_step = "none"

\* ---- image ----

\* image_processor.py:20-25: a known platform, its preset is entered
ImageDispatch ==
    /\ rq_pc = "start"
    /\ rq.kind = "image"
    /\ rq.platform \in KnownPlatforms
    /\ rq_pc' = "open"
    /\ UNCHANGED <<rq, rq_result, resources, work, audio_protected_path, img_i,
                   failed_step, pipeVars, outsidePreset>>

\* image_processor.py:26-27: raise ValueError("Unknown platform")
ImageUnknownPlatform ==
    /\ rq_pc = "start"
    /\ rq.kind = "image"
    /\ rq.platform \notin KnownPlatforms
    /\ rq_result' = "UnknownPlatform"
    /\ rq_pc' = "done"
    /\ UNCHANGED <<rq, resources, work, audio_protected_path, img_i,
                   failed_step, pipeVars, outsidePreset>>

\* image_processor.py:32-35: Image.open and the conversion to RGB succeed
ImageOpen ==
    /\ rq_pc = "open"
    /\ resources' = resources \cup {"decoded_image"}
    /\ work' = Append(work, "open")
    /\ img_i' = 1
    /\ rq_pc' = "steps"
    /\ UNCHANGED <<rq, rq_result, audio_protected_path, failed_step, pipeVars,
                   outsidePreset>>

\* image_processor.py:32, 65-66: Image.open raises, wrapped and re-raised
ImageOpenFails ==
    /\ rq_pc = "open"
    /\ work' = Append(work, "open")
    /\ failed_step' = "open"
    /\ rq_result' = "Error"
    /\ rq_pc' = "done"
    /\ UNCHANGED <<rq, resources, audio_protected_path, img_i, pipeVars,
                   outsidePreset>>

\* image_processor.py:38-64: the next statement of the preset returns.  The
\* variation is generated by the first of them and handed to every layer;
\* _apply_metadata_evasion builds the fake record and returns the image without
\* it; img.save writes what it is given.
ImageStepOk ==
    /\ rq_pc = "steps"
    /\ LET step == ImageSteps(rq.platform)[img_i]
       IN  /\ work' = Append(work, step)
           /\ resources' = IF step = "save"
                           THEN resources \cup {"output_file"}
                           ELSE resources
           /\ IF step = "get_dynamic_variation"
              THEN /\ generated' = generated + 1
                   /\ \E t \in Times, r \in ImageDraws :
                          variation' =
                              [kind |-> "image",
                               platform |-> image_variation_settings(rq.platform),
                               type |-> image_variation_type(rq.platform,
                                            image_variation_seed(t, r))]
              ELSE UNCHANGED <<generated, variation>>
           /\ layer_variations' =
                  IF \E k \in 1 .. Len(ImageLayers(rq.platform)) :
                         ImageLayers(rq.platform)[k] = step
                  THEN Append(layer_variations, variation)
                  ELSE layer_variations
           /\ fake_metadata' = IF step = "metadata_evasion"
                               THEN generate_fake_camera_metadata(variation)
                               ELSE fake_metadata
           /\ output_metadata' = IF step = "save"
                                 THEN saved_metadata(fake_metadata)
                                 ELSE output_metadata
    /\ IF img_i < Len(ImageSteps(rq.platform))
       THEN /\ img_i' = img_i + 1
            /\ rq_pc' = "steps"
            /\ rq_result' = rq_result
       ELSE /\ img_i' = img_i
            /\ rq_pc' = "done"
            /\ rq_result' = "output"
    /\ UNCHANGED <<rq, audio_protected_path, failed_step, pipeVars, reserveVars,
                   concVars, fileVars, parserVars,
                   layerVars, appVars>>

\* image_processor.py:65-66: the statement raises; no layer has a handler of
\* its own, the preset's except clause re-raises and the request ends
ImageStepFails ==
    /\ rq_pc = "steps"
    /\ ImageSteps(rq.platform)[img_i] \notin NeverRaises
    /\ work' = Append(work, ImageSteps(rq.platform)[img_i])
    /\ failed_step' = ImageSteps(rq.platform)[img_i]
    /\ rq_result' = "Error"
    /\ rq_pc' = "done"
    /\ UNCHANGED <<rq, resources, audio_protected_path, img_i, pipeVars,
                   outsidePreset>>

\* ---- video ----

\* video_processor.py:101, 123-132, 188-190: _apply_advanced_audio_protection
\* is called before the platform is looked at; ffprobe finds no audio stream,
\* or raises: the input path is returned
VideoProbeNoAudio ==
    /\ rq_pc = "start"
    /\ rq.kind = "video"
    /\ work' = Append(work, "probe")
    /\ audio_protected_path' = "input"
    /\ rq_pc' = "dispatch"
    /\ UNCHANGED <<rq, rq_result, resources, img_i, failed_step, pipeVars,
                   outsidePreset>>

\* video_processor.py:127-128: ffprobe finds an audio stream
VideoProbeAudio ==
    /\ rq_pc = "start"
    /\ rq.kind = "video"
    /\ work' = Append(work, "probe")
    /\ rq_pc' = "audio"
    /\ UNCHANGED <<rq, rq_result, resources, audio_protected_path, img_i,
                   failed_step, pipeVars, outsidePreset>>

\* video_processor.py:134-186: the encoder writes audio_protected_<stem>.mp4
VideoAudioEncode ==
    /\ rq_pc = "audio"
    /\ work' = Append(work, "audio_encode")
    /\ resources' = resources \cup {"encoder_run", "audio_temp_file"}
    /\ audio_protected_path' = "audio_output"
    /\ rq_pc' = "dispatch"
    /\ UNCHANGED <<rq, rq_result, img_i, failed_step, pipeVars, outsidePreset>>

\* video_processor.py:174-181, 188-190: the encoder run fails, with or without
\* a partial file left behind; the input path is returned
VideoAudioEncodeFails(partial) ==
    /\ rq_pc = "audio"
    /\ work' = Append(work, "audio_encode")
    /\ resources' = resources \cup {"encoder_run"}
                        \cup (IF partial THEN {"audio_temp_file"} ELSE {})
    /\ audio_protected_path' = "input"
    /\ rq_pc' = "dispatch"
    /\ UNCHANGED <<rq, rq_result, img_i, failed_step, pipeVars, outsidePreset>>

\* video_processor.py:105-110, 216-218: the platform's system starts
VideoDispatch ==
    /\ rq_pc = "dispatch"
    /\ rq.platform \in KnownPlatforms
    /\ run' = rq.platform
    /\ pl_pc' = "layer"
    /\ layer_i' = 1
    /\ rq_pc' = "system"
    /\ UNCHANGED <<video, arg, fb, protection_layers_applied, outcomes, fbkinds,
                   attempts, input0>>
    /\ UNCHANGED <<rq, rq_result, resources, work, audio_protected_path, img_i,
                   failed_step, outsidePreset>>

\* video_processor.py:111-112: raise ValueError("Unknown platform")
VideoUnknownPlatform ==
    /\ rq_pc = "dispatch"
    /\ rq.platform \notin KnownPlatforms
    /\ rq_result' = "UnknownPlatform"
    /\ rq_pc' = "done"
    /\ UNCHANGED <<rq, resources, work, audio_protected_path, img_i,
                   failed_step, pipeVars, outsidePreset>>

\* video_processor.py:491-534 and 536-554: the encoder produces the output,
\* at the primary or at the fallback encoding
VideoEncode ==
    /\ rq_pc = "system"
    /\ pl_pc = "layers_done"
    /\ work' = Append(work, "encode")
    /\ resources' = resources \cup {"encoder_run", "output_file"}
    /\ rq_pc' = "cleanup"
    /\ UNCHANGED <<rq, rq_result, audio_protected_path, img_i, failed_step,
                   pipeVars, outsidePreset>>

\* video_processor.py:543-557: both encodings fail, Exception is raised
VideoEncodeFails ==
    /\ rq_pc = "system"
    /\ pl_pc = "layers_done"
    /\ work' = Append(work, "encode")
    /\ resources' = resources \cup {"encoder_run"}
    /\ failed_step' = "encode"
    /\ rq_result' = "Error"
    /\ rq_pc' = "done"
    /\ UNCHANGED <<rq, audio_protected_path, img_i, pipeVars, outsidePreset>>

\* video_processor.py:114-119: remove the temporary audio file, return
VideoCleanup ==
    /\ rq_pc = "cleanup"
    /\ resources' = IF audio_protected_path # "input"
                    THEN resources \ {"audio_temp_file"}
                    ELSE resources
    /\ rq_result' = "output"
    /\ rq_pc' = "done"
    /\ UNCHANGED <<rq, work, audio_protected_path, img_i, failed_step, pipeVars,
                   outsidePreset>>

VideoAudioEncodeFailsStep == \E partial \in BOOLEAN : VideoAudioEncodeFails(partial)

\* the layers of the platform system run only while a video request is in it
PresetLayerStep ==
    /\ rq_pc = "system"
    /\ \/ CallLayer("filter")
       \/ AdvancedSucceeds
       \/ AdvancedFails
       \/ FallbackSucceeds
       \/ FallbackFails
       \/ RecordLayer

NextPreset ==
    \/ ImageDispatch
    \/ ImageUnknownPlatform
    \/ ImageOpen
    \/ ImageOpenFails
    \/ ImageStepOk
    \/ ImageStepFails
    \/ VideoProbeNoAudio
    \/ VideoProbeAudio
    \/ VideoAudioEncode
    \/ VideoAudioEncodeFailsStep
    \/ VideoDispatch
    \/ VideoUnknownPlatform
    \/ PresetLayerStep
    \/ VideoEncode
    \/ VideoEncodeFails
    \/ VideoCleanup

SpecPreset == InitPreset /\ [][NextPreset]_vars

\* C5: a request for a platform outside {tiktok, instagram, youtube} fails with
\* the unknown-platform error before any pipeline work is done and before any
\* resource (temporary file, encoder run) is created, for image and for video.
\* (Reading the input with ffprobe is not counted as pipeline work here.)
C5_UnknownPlatformFirst ==
    (rq.platform \notin KnownPlatforms /\ rq_pc = "done") =>
        /\ rq_result = "UnknownPlatform"
        /\ SelectSeq(work, LAMBDA w : w # "probe") = <<>>
        /\ resources = {}

\* C6: once the image is decoded, the failure of a single protection layer does
\* not abort the request: every layer is still attempted and an output artifact
\* is produced.
C6_LayerFailureDoesNotAbort ==
    (/\ rq.kind = "image"
     /\ rq_pc = "done"
     /\ "decoded_image" \in resources
     /\ \E k \in 1 .. Len(ImageLayers(rq.platform)) :
            failed_step = ImageLayers(rq.platform)[k])
        => /\ rq_result = "output"
           /\ "output_file" \in resources
           /\ \A k \in 1 .. Len(ImageLayers(rq.platform)) :
                  \E w \in 1 .. Len(work) : work[w] = ImageLayers(rq.platform)[k]

\* C14: the fake metadata record synthesized for an image request is written
\* exactly once into the final output artifact.
C14_FakeMetadataWrittenOnce ==
    (rq.kind = "image" /\ rq_result = "output") =>
        /\ fake_metadata # NoMetadata
        /\ output_metadata = <<fake_metadata>>

\* C15: in every preset request that produces its output (image or video),
\* exactly one Variation was generated, with the session history consulted and
\* updated by that generation, before the first protection layer, and every
\* layer was given that one Variation.
C15_OneVariationPerRequest ==
    rq_result = "output" =>
        /\ generated = 1
        /\ Len(pushed) = 1
        /\ rq.kind = "image" =>
               /\ layer_variations =
                      [i \in 1 .. Len(ImageLayers(rq.platform)) |-> variation]
               /\ \E k \in 1 .. Len(work) :
                      /\ work[k] = "get_dynamic_variation"
                      /\ \A j \in 1 .. (k - 1) : work[j] \in {"open", "crop_to_square"}

(***************************************************************************)
(* ImageProcessor._manipulate_file_structure (image_processor.py:1272-     *)
(* 1333): the byte-level structural edit of the encoded file.  A file is   *)
(* the sequence of its bytes.                                              *)
(***************************************************************************)

\* random_comments (lines 1285-1292), as bytes
random_comments ==
    { \* "Created with advanced imaging software", "Processed for optimal
      \* quality", "Enhanced with professional tools", "Optimized for social
      \* media", "Digital enhancement applied", "Color corrected and optimized"
       <<67, 114, 101, 97, 116, 101, 100, 32, 119, 105, 116, 104, 32, 97,
         100, 118, 97, 110, 99, 101, 100, 32, 105, 109, 97, 103, 105, 110,
         103, 32, 115, 111, 102, 116, 119, 97, 114, 101>>,
       <<80, 114, 111, 99, 101, 115, 115, 101, 100, 32, 102, 111, 114, 32,
         111, 112, 116, 105, 109, 97, 108, 32, 113, 117, 97, 108, 105,
         116, 121>>,
       <<69, 110, 104, 97, 110, 99, 101, 100, 32, 119, 105, 116, 104, 32,
         112, 114, 111, 102, 101, 115, 115, 105, 111, 110, 97, 108, 32,
         116, 111, 111, 108, 115>>,
       <<79, 112, 116, 105, 109, 105, 122, 101, 100, 32, 102, 111, 114,
         32, 115, 111, 99, 105, 97, 108, 32, 109, 101, 100, 105, 97>>,
       <<68, 105, 103, 105, 116, 97, 108, 32, 101, 110, 104, 97, 110, 99,
         101, 109, 101, 110, 116, 32, 97, 112, 112, 108, 105, 101, 100>>,
       <<67, 111, 108, 111, 114, 32, 99, 111, 114, 114, 101, 99, 116, 101,
         100, 32, 97, 110, 100, 32, 111, 112, 116, 105, 109, 105, 122,
         101, 100>> }

comment_marker == <<255, 254>>
soi_marker == <<255, 216>>
eoi_marker == <<255, 217>>

\* random.randint(16, 128): the smallest, the largest and one size between
PaddingSizes == {16, 17, 128}

\* the padding bytes are random; the model draws one value for all of them
PaddingBytes == {0, 217, 255}

\* the encoded files the method is called on: a JPEG with both markers, one
\* without the end marker, and data that is no JPEG at all
EncodedFiles == {<<255, 216, 255, 219, 7, 255, 217>>,
                 <<255, 216, 255, 219, 7>>,
                 <<1, 2, 3>>}

StartsWith(data, m) == Len(data) >= Len(m) /\ SubSeq(data, 1, Len(m)) = m
EndsWith(data, m) ==
    Len(data) >= Len(m) /\ SubSeq(data, Len(data) - Len(m) + 1, Len(data)) = m

\* comment_length.to_bytes(2, 'big')
ToBytes2(n) == <<(n \div 256) % 256, n % 256>>

\* mutant: the length field counts the text only
comment_segment_LengthOfText(comment) ==
    comment_marker \o ToBytes2(Len(comment)) \o comment

\* lines 1295-1303: marker, length (the text plus the two length bytes), text
comment_segment(comment) == comment_marker \o ToBytes2(Len(comment) + 2) \o comment

\* lines 1280-1306: the comment goes right after the SOI marker of a JPEG
InsertComment(data, jpeg, comment) ==
    IF jpeg /\ StartsWith(data, soi_marker)
    THEN SubSeq(data, 1, 2) \o comment_segment(comment) \o SubSeq(data, 3, Len(data))
    ELSE data

random_padding(size, byte) == [i \in 1 .. size |-> byte]

\* lines 1312-1323: the padding goes before the EOI marker of a JPEG, else at the end
InsertPadding(data, jpeg, padding) ==
    IF jpeg /\ EndsWith(data, eoi_marker)
    THEN SubSeq(data, 1, Len(data) - 2) \o padding \o eoi_marker
    ELSE data \o padding

\* how many bytes reach the file when f.write fails part-way
PartialLengths(data) == {0, 2, Len(data) - 1}

InitFile ==
    /\ LayerIdle
    /\ AppIdle
    /\ history = <<>>
    /\ pushed = <<>>
    /\ now = 0
    /\ calls = 0
    /\ last = NoCall
    /\ ConcIdle
    /\ PipeIdle
    /\ PresetIdle
    /\ GenIdle
    /\ ParserIdle
    /\ fs_pc = "read"
    /\ is_jpeg \in BOOLEAN
    /\ disk \in EncodedFiles
    /\ pre_edit = disk
    /\ file_data = <<>>
    /\ fs_failed = "none"
    /\ fs_raised = FALSE

\* lines 1276-1277: file_data = bytearray(f.read())
FileRead ==
    /\ fs_pc = "read"
    /\ file_data' = disk
    /\ fs_pc' = "edit"
    /\ UNCHANGED <<is_jpeg, disk, pre_edit, fs_failed, fs_raised, outsideFile>>

\* lines 1276-1277, 1329-1333: open or read raises, the handler passes
FileReadFails ==
    /\ fs_pc = "read"
    /\ fs_failed' = "read"
    /\ fs_pc' = "done"
    /\ UNCHANGED <<is_jpeg, disk, file_data, pre_edit, fs_raised, outsideFile>>

\* lines 1279-1323: insert the comment segment, then the padding
FileEdit(comment, size, byte) ==
    /\ fs_pc = "edit"
    /\ file_data' = InsertPadding(InsertComment(file_data, is_jpeg, comment),
                                  is_jpeg, random_padding(size, byte))
    /\ fs_pc' = "open_write"
    /\ UNCHANGED <<is_jpeg, disk, pre_edit, fs_failed, fs_raised, outsideFile>>

\* lines 1279-1323, 1329-1333: building the edit raises (MemoryError is an
\* Exception), the handler passes
FileEditFails ==
    /\ fs_pc = "edit"
    /\ fs_failed' = "edit"
    /\ fs_pc' = "done"
    /\ UNCHANGED <<is_jpeg, disk, file_data, pre_edit, fs_raised, outsideFile>>

\* line 1326: open(file_path, 'wb') truncates the file
FileOpenWrite ==
    /\ fs_pc = "open_write"
    /\ disk' = <<>>
    /\ fs_pc' = "write"
    /\ UNCHANGED <<is_jpeg, file_data, pre_edit, fs_failed, fs_raised, outsideFile>>

\* line 1326, 1329-1333: open(file_path, 'wb') raises before truncating
FileOpenWriteFails ==
    /\ fs_pc = "open_write"
    /\ fs_failed' = "open_write"
    /\ fs_pc' = "done"
    /\ UNCHANGED <<is_jpeg, disk, file_data, pre_edit, fs_raised, outsideFile>>

\* line 1327: f.write(file_data), and the file is closed
FileWrite ==
    /\ fs_pc = "write"
    /\ disk' = file_data
    /\ fs_pc' = "done"
    /\ UNCHANGED <<is_jpeg, file_data, pre_edit, fs_failed, fs_raised, outsideFile>>

\* line 1327, 1329-1333: the write (or the flush on close) raises after n
\* bytes have reached the file; the handler passes
FileWriteFails(n) ==
    /\ fs_pc = "write"
    /\ disk' = SubSeq(file_data, 1, n)
    /\ fs_failed' = "write"
    /\ fs_pc' = "done"
    /\ UNCHANGED <<is_jpeg, file_data, pre_edit, fs_raised, outsideFile>>

FileEditStep == \E comment \in random_comments, size \in PaddingSizes,
                   byte \in PaddingBytes : FileEdit(comment, size, byte)
FileWriteFailsStep == \E n \in PartialLengths(file_data) : FileWriteFails(n)

NextFile ==
    \/ FileRead
    \/ FileReadFails
    \/ FileEditStep
    \/ FileEditFails
    \/ FileOpenWrite
    \/ FileOpenWriteFails
    \/ FileWrite
    \/ FileWriteFailsStep

SpecFile == InitFile /\ [][NextFile]_vars

\* the method ran to its end without raising, on a file named and encoded as
\* a JPEG: the data began with SOI and ended with EOI
EditedJpeg ==
    /\ fs_pc = "done"
    /\ fs_failed = "none"
    /\ is_jpeg
    /\ StartsWith(pre_edit, soi_marker)
    /\ EndsWith(pre_edit, eoi_marker)

\* C25: for a JPEG that starts with SOI and ends with EOI, a successful
\* structural edit leaves on disk: SOI, one comment segment (FF FE, a two-byte
\* big-endian length equal to the text's length plus 2, the text), all the
\* original bytes between SOI and EOI in their order, 16 to 128 padding
\* bytes, EOI.
C25_JpegEditLayout ==
    EditedJpeg =>
        \E text \in random_comments, n \in 16 .. 128 :
            LET body == Len(pre_edit) - 4
                t0 == 6 + Len(text)
            IN  /\ Len(disk) = 2 + 4 + Len(text) + body + n + 2
                /\ SubSeq(disk, 1, 2) = <<255, 216>>
                /\ SubSeq(disk, 3, 4) = <<255, 254>>
                /\ disk[5] * 256 + disk[6] = Len(text) + 2
                /\ SubSeq(disk, 7, t0) = text
                /\ SubSeq(disk, t0 + 1, t0 + body) = SubSeq(pre_edit, 3, Len(pre_edit) - 2)
                /\ \A i \in (t0 + body + 1) .. (t0 + body + n) : disk[i] \in 0 .. 255
                /\ SubSeq(disk, Len(disk) - 1, Len(disk)) = <<255, 217>>

\* C25 witness: a JPEG with both markers was edited and written back with
\* the longest comment and 128 padding bytes.
C25_Witness ==
    /\ EditedJpeg
    /\ Len(pre_edit) > 4
    /\ Len(disk) = Len(pre_edit) + 4 + 38 + 128

\* C7: if any step of the structural edit fails (read, insert comment, insert
\* padding, write back), no error propagates and the file on disk is byte for
\* byte the pre-edit encoded file.
C7_FailedEditLeavesFile ==
    (fs_pc = "done" /\ fs_failed # "none") =>
        /\ ~fs_raised
        /\ disk = pre_edit

(***************************************************************************)
(* The variation generators: VideoProcessor._get_dynamic_variation          *)
(* (video_processor.py:1046-1204) and ImageProcessor._get_dynamic_variation *)
(* (image_processor.py:740-772).  The session history is the               *)
(* VideoProcessor's; an ImageProcessor has no history (its __init__ sets    *)
(* temp_dir only).                                                         *)
(***************************************************************************)
MaxGenerated == 2

InitVariation ==
    /\ LayerIdle
    /\ AppIdle
    /\ history = <<>>
    /\ pushed = <<>>
    /\ now = 0
    /\ calls = 0
    /\ last = NoCall
    /\ ConcIdle
    /\ PipeIdle
    /\ PresetIdle
    /\ FileIdle
    /\ GenIdle
    /\ ParserIdle

\* One whole call of VideoProcessor._get_dynamic_variation(platform), the call
\* of _apply_batch_protection (line 1052) included.  The dict returned has no
\* 'type' key (type -1 here).
VideoGetVariation(platform, t, r) ==
    /\ generated < MaxGenerated
    /\ t >= now
    /\ LET seed == video_variation_seed(t, r)
           fp == session_fingerprint(seed, platform, t)
       IN  /\ \E out \in AdjustedSeeds(seed, history, fp) :
                 last' = [seed |-> seed, platform |-> platform, t |-> t,
                          out |-> out, pre |-> history, fp |-> fp]
           /\ history' = PushHistory(history, fp)
           /\ pushed' = Append(pushed, fp)
    /\ now' = t
    /\ calls' = calls + 1
    /\ generated' = generated + 1
    /\ variation' = [kind |-> "video",
                     platform |-> video_variation_settings(platform),
                     type |-> -1]
    /\ UNCHANGED <<layer_variations, fake_metadata, output_metadata, outsideGen>>

\* One whole call of ImageProcessor._get_dynamic_variation(platform): the
\* clock, one draw for the seed, and the dict; no history is read or written.
ImageGetVariation(platform, t, r) ==
    /\ generated < MaxGenerated
    /\ t >= now
    /\ now' = t
    /\ generated' = generated + 1
    /\ variation' = [kind |-> "image",
                     platform |-> image_variation_settings(platform),
                     type |-> image_variation_type(platform,
                                                   image_variation_seed(t, r))]
    /\ UNCHANGED <<history, calls, last, pushed>>
    /\ UNCHANGED <<layer_variations, fake_metadata, output_metadata, outsideGen>>

VideoGetVariationCall ==
    \E platform \in GeneratorPlatforms, t \in Times, r \in VideoDraws :
        VideoGetVariation(platform, t, r)

ImageGetVariationCall ==
    \E platform \in GeneratorPlatforms, t \in Times, r \in ImageDraws :
        ImageGetVariation(platform, t, r)

NextVariation ==
    \/ VideoGetVariationCall
    \/ ImageGetVariationCall

SpecVariation == InitVariation /\ [][NextVariation]_vars

\* C11: every call of a variation generator (video or image, any platform)
\* appends exactly one fingerprint to the session history: the number of
\* fingerprints appended equals the number of generator calls made.
C11_OneFingerprintPerCall == Len(pushed) = generated

\* C13: the type of every generated image Variation lies in 0..4, whatever the
\* platform, the clock reading and the draw, and the variation_type of every
\* video fingerprint lies in 0..7.
C13_TypesInRange ==
    /\ variation.kind = "image" => variation.type \in 0 .. 4
    /\ \A i \in 1 .. Len(pushed) : pushed[i].variation_type \in 0 .. (NumTypes - 1)

\* C13 witness: an image Variation built from a seed of 5 or more (the
\* reduction acts) after a video call whose candidate seed was 8 or more.
C13_Witness ==
    /\ variation.kind = "image"
    /\ variation.platform = "tiktok"
    /\ now % 5 = 4
    /\ variation.type \in {0, 1, 2}
    /\ CalledOnce
    /\ last.seed >= NumTypes

(***************************************************************************)
(* CommandParser.parse_command (command_parser.py:114-143) and the two      *)
(* command tables (5-112), with the command reference the UI shows          *)
(* (app.py:286-344).  Command strings are strings; a table is the sequence  *)
(* of its keys in insertion order, and the parser registered under the key  *)
(* k is self._parse_k in every entry.                                       *)
(***************************************************************************)

\* command_parser.py:5-54
video_commands ==
    <<"flip", "speed", "zoom", "rotate", "brightness", "contrast",
      "vintage", "slow", "blur", "sharpen", "grain", "glitch", "chromatic",
      "vhs", "film", "sepia", "invert", "mirror", "kaleidoscope", "wave",
      "pixelate", "oil", "emboss", "edge", "solarize", "posterize",
      "gamma", "hue", "saturation", "temperature", "fade", "vignette",
      "tilt", "compression", "dither", "halftone", "letterbox",
      "crop_zoom", "stabilize", "framerate", "reverse", "loop", "echo",
      "freeze", "skip", "audio_pitch", "audio_echo", "audio_bass">>

\* command_parser.py:56-112
image_commands ==
    <<"flip", "brightness", "contrast", "color", "crop", "rotate",
      "vintage", "noise", "blur", "sharpen", "grain", "glitch",
      "chromatic", "vhs", "film", "sepia", "invert", "mirror",
      "kaleidoscope", "wave", "pixelate", "oil", "emboss", "edge",
      "solarize", "posterize", "gamma", "hue", "saturation", "temperature",
      "fade", "vignette", "tilt", "compression", "dither", "halftone",
      "letterbox", "crop_zoom", "square", "portrait", "landscape",
      "fisheye", "barrel", "perspective", "sketch", "cartoon",
      "watercolor", "pencil", "mosaic", "cross_hatch", "stipple", "ascii",
      "thermal", "x_ray", "night_vision">>

\* app.py:288-313: the video commands of the reference, as shown (the first
\* alternative where two are shown)
video_reference ==
    {"flip horizontal", "speed 1.5", "zoom 1.2", "rotate 90", "slow 20%",
     "brightness 120", "contrast 110", "saturation 1.3", "gamma 1.2",
     "hue 30", "temperature 200", "blur 5", "sharpen 1.5", "grain 25",
     "noise 15", "glitch 10", "chromatic 3", "vhs", "film", "sepia",
     "invert", "vintage", "fade 0.3", "mirror horizontal",
     "kaleidoscope 6", "wave 10", "pixelate 8", "oil 4", "emboss", "edge",
     "solarize 128", "posterize 4", "vignette 0.8", "letterbox",
     "crop_zoom 1.2", "stabilize", "framerate 30", "reverse", "loop 2",
     "echo 0.5", "freeze 1.0", "skip 1.0", "audio_pitch 1.2",
     "audio_echo 0.3", "audio_bass 5"}

\* app.py:315-338: the image commands of the reference
image_reference ==
    {"flip vertical", "brightness 120", "contrast 110", "color 120",
     "crop square", "rotate 45", "tilt 2.0", "gamma 1.2", "hue 30",
     "saturation 1.3", "temperature 200", "fade 0.3", "compression 70",
     "blur 5", "sharpen 1.5", "grain 25", "noise 15", "glitch 10",
     "chromatic 3", "vhs", "film", "sepia", "invert", "vintage", "mirror",
     "kaleidoscope 6", "wave 10", "pixelate 8", "oil 4", "emboss", "edge",
     "solarize 128", "posterize 4", "vignette 0.8", "dither", "sketch",
     "cartoon", "watercolor", "pencil", "mosaic 20", "cross_hatch",
     "stipple", "ascii", "thermal", "x_ray", "night_vision",
     "halftone 15", "square", "portrait", "landscape", "letterbox",
     "fisheye 0.8", "barrel 0.3", "perspective", "crop_zoom 1.2"}

\* app.py:340-343: the usage examples, and strings with an upper-case letter,
\* outer blanks, an empty part and the separator "and"
usage_examples ==
    {"blur 10", "sepia + grain 20 + vignette 0.5",
     "glitch 15 + chromatic 5 + film + noise 25",
     " Blur 5 ", "sepia + ", "film and vhs", "invert  AND  edge+oil 4"}

\* the character of s at position i
char(s, i) == SubSeq(s, i, i)

\* str.lower: every upper-case letter is replaced by its lower-case letter
RECURSIVE lower(_)
lower(s) ==
    LET upper_letters == "ABCDEFGHIJKLMNOPQRSTUVWXYZ"
        lower_letters == "abcdefghijklmnopqrstuvwxyz"
        lower_char(c) ==
            IF \E i \in 1 .. Len(upper_letters) : char(upper_letters, i) = c
            THEN char(lower_letters, CHOOSE i \in 1 .. Len(upper_letters) :
                                         char(upper_letters, i) = c)
            ELSE c
    IN  IF s = "" THEN ""
        ELSE lower_char(char(s, 1)) \o lower(SubSeq(s, 2, Len(s)))

\* str.strip (the blank is the only white space of the strings used)
RECURSIVE strip(_)
strip(s) ==
    IF s = "" THEN ""
    ELSE IF char(s, 1) = " " THEN strip(SubSeq(s, 2, Len(s)))
    ELSE IF char(s, Len(s)) = " " THEN strip(SubSeq(s, 1, Len(s) - 1))
    ELSE s

\* the first position from i on that holds no blank (Len(s) + 1 if none)
RECURSIVE skip_blanks(_, _)
skip_blanks(s, i) ==
    IF i <= Len(s) /\ char(s, i) = " " THEN skip_blanks(s, i + 1) ELSE i

\* r'\s*\+\s*|\s+and\s+' matched at position i: the position after the match,
\* or 0 when neither alternative matches there
separator_end(s, i) ==
    LET j == skip_blanks(s, i)
    IN  IF j <= Len(s) /\ char(s, j) = "+"
        THEN skip_blanks(s, j + 1)
        ELSE IF /\ j > i
                /\ j + 3 <= Len(s)
                /\ SubSeq(s, j, j + 2) = "and"
                /\ char(s, j + 3) = " "
             THEN skip_blanks(s, j + 3)
             ELSE 0

\* re.split(r'\s*\+\s*|\s+and\s+', s): cut at the leftmost match, go on after it
RECURSIVE re_split(_)
re_split(s) ==
    LET starts == {i \in 1 .. Len(s) : separator_end(s, i) # 0}
    IN  IF starts = {}
        THEN <<s>>
        ELSE LET i == CHOOSE k \in starts : \A o \in starts : k <= o
             IN  <<SubSeq(s, 1, i - 1)>>
                     \o re_split(SubSeq(s, separator_end(s, i), Len(s)))

\* cmd_name in command
contains(command, cmd_name) ==
    \E i \in 0 .. (Len(command) - Len(cmd_name)) :
        SubSeq(command, i + 1, i + Len(cmd_name)) = cmd_name

\* line 137
available_commands(mt) == IF mt = "video" THEN video_commands ELSE image_commands

\* _parse_single_command (lines 132-143): the key of the first table entry, in
\* insertion order, that is contained in the command; its parser is called.
\* "None" when no key is contained.
parse_single_command(command, mt) ==
    LET cmds == available_commands(mt)
        hits == {k \in 1 .. Len(cmds) : contains(strip(command), cmds[k])}
    IN  IF hits = {} THEN "None"
        ELSE cmds[CHOOSE k \in hits : \A o \in hits : k <= o]

\* the command name a reference entry starts with: up to the first blank
RECURSIVE first_word(_)
first_word(s) ==
    IF s = "" \/ SubSeq(s, 1, 1) = " " THEN ""
    ELSE SubSeq(s, 1, 1) \o first_word(SubSeq(s, 2, Len(s)))

CommandStrings(mt) ==
    LET ref == IF mt = "video" THEN video_reference ELSE image_reference
    IN  ref \cup {first_word(e) : e \in ref} \cup usage_examples

InitCommand ==
    /\ LayerIdle
    /\ AppIdle
    /\ history = <<>>
    /\ pushed = <<>>
    /\ now = 0
    /\ calls = 0
    /\ last = NoCall
    /\ ConcIdle
    /\ PipeIdle
    /\ PresetIdle
    /\ FileIdle
    /\ GenIdle
    /\ media_type \in {"video", "image"}
    /\ command_string \in CommandStrings(media_type)
    /\ cp_pc = "split"
    /\ parts = <<>>
    /\ commands = <<>>

\* line 119: the parts of the lower-cased, stripped command string
SplitCommand ==
    /\ cp_pc = "split"
    /\ parts' = re_split(strip(lower(command_string)))
    /\ cp_pc' = "loop"
    /\ UNCHANGED <<media_type, command_string, commands, outsideParser>>

\* lines 122-124: an empty part is passed over
SkipEmptyPart ==
    /\ cp_pc = "loop"
    /\ parts # <<>>
    /\ strip(Head(parts)) = ""
    /\ parts' = Tail(parts)
    /\ UNCHANGED <<cp_pc, media_type, command_string, commands, outsideParser>>

\* lines 126-128, 139-141: a key is contained in the part, its parser's
\* command is appended (every parser returns a dict)
DispatchPart ==
    /\ cp_pc = "loop"
    /\ parts # <<>>
    /\ strip(Head(parts)) # ""
    /\ parse_single_command(strip(Head(parts)), media_type) # "None"
    /\ commands' = Append(commands,
                          [parser |-> parse_single_command(strip(Head(parts)),
                                                           media_type),
                           command |-> strip(Head(parts))])
    /\ parts' = Tail(parts)
    /\ UNCHANGED <<cp_pc, media_type, command_string, outsideParser>>

\* lines 126-127, 143: no key is contained in the part, nothing is appended
DropPart ==
    /\ cp_pc = "loop"
    /\ parts # <<>>
    /\ strip(Head(parts)) # ""
    /\ parse_single_command(strip(Head(parts)), media_type) = "None"
    /\ parts' = Tail(parts)
    /\ UNCHANGED <<cp_pc, media_type, command_string, commands, outsideParser>>

\* line 130: return commands
ReturnCommands ==
    /\ cp_pc = "loop"
    /\ parts = <<>>
    /\ cp_pc' = "done"
    /\ UNCHANGED <<media_type, command_string, parts, commands, outsideParser>>

NextCommand ==
    \/ SplitCommand
    \/ SkipEmptyPart
    \/ DispatchPart
    \/ DropPart
    \/ ReturnCommands

SpecCommand == InitCommand /\ [][NextCommand]_vars

\* the command names registered for the media type and listed in the reference
ListedRegistered(mt) ==
    {first_word(e) : e \in (IF mt = "video" THEN video_reference
                                            ELSE image_reference)}
        \cap {available_commands(mt)[k] : k \in 1 .. Len(available_commands(mt))}

\* the command string is one part: a listed, registered name, alone or with
\* the argument the reference shows
IsListedPart(s, mt) ==
    /\ first_word(s) \in ListedRegistered(mt)
    /\ s \in (IF mt = "video" THEN video_reference ELSE image_reference)
                 \cup {first_word(s)}

\* C17: a command string that is one listed, registered command name,
\* optionally followed by its argument, is dispatched to the parser registered
\* under that same name: the list returned holds that one command, none dropped.
C17_ListedCommandDispatched ==
    (cp_pc = "done" /\ IsListedPart(command_string, media_type)) =>
        /\ Len(commands) = 1
        /\ commands[1].parser = first_word(command_string)

(***************************************************************************)
(* The bit-embedding layer (_apply_reversible_steganography) and the       *)
(* frequency layer (_apply_hybrid_dct_manipulation) of an image preset,    *)
(* image_processor.py:813-897.  Images are one row high; intensities are   *)
(* in hundredths and offset bounds in tenths.  The generator is kept as    *)
(* the seed it was given and the number of values drawn since: a value     *)
(* drawn is determined by these two.                                       *)
(***************************************************************************)
\* lines 746-752: what _get_dynamic_variation('tiktok') can return, with the
\* two ends of random.uniform(0.15, 0.35): every type, and for type 1 every
\* choice of the other two fields
LayerVariations ==
    {v \in [type : 0 .. 4, intensity : {15, 35},
            frequency_bands : {"low", "mid", "mixed"}] :
        v.type = 1 \/ (v.intensity = 15 /\ v.frequency_bands = "low")}

\* np.array(img): rows of the R, G and B channels of two images, 1x3 and 1x4
LayerImages ==
    { << <<0, 255, 0>>, <<1, 254, 1>>, <<2, 129, 3>> >>,
      << <<255, 255, 0, 255>>, <<254, 254, 0, 254>>, <<129, 129, 0, 129>> >> }

\* lines 822-823: ndimage.sobel of the channel mean along the row, borders
\* reflected (times the constant 3/4)
gradient_magnitude(img) ==
    LET w == Len(img[1])
        gray == [x \in 1 .. w |-> img[1][x] + img[2][x] + img[3][x]]
    IN  [x \in 1 .. w |-> gray[IF x < w THEN x + 1 ELSE w] - gray[IF x > 1 THEN x - 1 ELSE 1]]

\* line 824: gradient_magnitude > np.percentile(gradient_magnitude, 70),
\* the percentile interpolated linearly between the sorted values
texture_mask(img) ==
    LET g == gradient_magnitude(img)
        n == Len(g)
        sorted(k) == CHOOSE v \in {g[x] : x \in 1 .. n} :
                         /\ Cardinality({x \in 1 .. n : g[x] < v}) <= k
                         /\ k < Cardinality({x \in 1 .. n : g[x] <= v})
        lo == (7 * (n - 1)) \div 10
        f == (7 * (n - 1)) % 10
        hi == IF lo + 1 <= n - 1 THEN lo + 1 ELSE lo
    IN  {x \in 1 .. n : 10 * g[x] > 10 * sorted(lo) + f * (sorted(hi) - sorted(lo))}

\* mutant: seeding leaves the generator as it was
np_seed_Ignored(st, s) == st

\* np.random.seed(s)
np_seed(st, s) == [seed |-> s, drawn |-> 0]

\* n values drawn from the generator
np_draw(st, n) == [st EXCEPT !.drawn = @ + n]

\* mutant: every channel is seeded with the type alone
pattern_seed_TypeOnly(type, c) == type

\* line 831: np.random.seed(variation['type'] + c)
pattern_seed(type, c) == type + c

\* lines 838, 843: & and | on uint8 values, bit by bit
RECURSIVE bitwise(_, _, _)
bitwise(op, a, b) ==
    IF a = 0 /\ b = 0
    THEN 0
    ELSE (IF op = "and" THEN (a % 2) * (b % 2)
                        ELSE (a % 2) + (b % 2) - (a % 2) * (b % 2))
         + 2 * bitwise(op, a \div 2, b \div 2)

\* mutant: the two lowest bits are cleared before the bit is set
embed_bits_ClearsTwoBits(x, v) == bitwise("or", bitwise("and", x, 252), v.type % 2)

\* lines 838-843: the new value of a selected pixel
embed_bits(x, v) ==
    LET low == bitwise("or", bitwise("and", x, 254), v.type % 2)
    IN  IF v.intensity > 80
        THEN bitwise("or", bitwise("and", low, 253), ((v.type \div 2) % 2) * 2)
        ELSE low

\* mutant: mixed takes the ranges of the three single bands
band_slices_SingleBandRanges(bands) ==
    IF bands = "low" THEN << <<0, 3>> >>
    ELSE IF bands = "mid" THEN << <<2, 6>> >>
    ELSE IF bands = "high" THEN << <<5, 8>> >>
    ELSE << <<0, 3>>, <<2, 6>>, <<5, 8>> >>

\* lines 874-887: the slices [a:b, a:b] of the block that are added to
band_slices(bands) ==
    IF bands = "low" THEN << <<0, 3>> >>
    ELSE IF bands = "mid" THEN << <<2, 6>> >>
    ELSE IF bands = "high" THEN << <<5, 8>> >>
    ELSE << <<0, 3>>, <<3, 6>>, <<6, 8>> >>

\* mutant: the bounds of mixed fall with the frequency
band_bounds_Falling(bands) ==
    IF bands = "low" THEN <<5>>
    ELSE IF bands = "mid" THEN <<8>>
    ELSE IF bands = "high" THEN <<12>>
    ELSE <<9, 6, 3>>

\* lines 876-887: the bound a of np.random.uniform(-a, a, ...) per slice
band_bounds(bands) ==
    IF bands = "low" THEN <<5>>
    ELSE IF bands = "mid" THEN <<8>>
    ELSE IF bands = "high" THEN <<12>>
    ELSE <<3, 6, 9>>

\* lines 855-858, 866-867: the 8x8 blocks of a padded h x w channel
block_count(h, w) == ((h + 7) \div 8) * ((w + 7) \div 8)

\* the first request has entered the bit-embedding layer
InitLayers ==
    /\ history = <<>>
    /\ pushed = <<>>
    /\ now = 0
    /\ calls = 0
    /\ last = NoCall
    /\ ConcIdle
    /\ PipeIdle
    /\ PresetIdle
    /\ FileIdle
    /\ GenIdle
    /\ ParserIdle
    /\ AppIdle
    /\ ly_pc = "stego"
    /\ ch = 0
    /\ lv \in LayerVariations
    /\ img_in \in LayerImages
    /\ img_array = img_in
    /\ modification_mask = <<>>
    /\ seeded = <<>>
    /\ np_random = [seed |-> -1, drawn |-> 0]
    /\ offsets = <<>>
    /\ disturbed = FALSE
    /\ prev = [type |-> 0, width |-> 0, frequency_bands |-> "", intensity |-> 0,
               offsets |-> <<>>]

\* lines 827-846: one round of the channel loop; pattern is what
\* np.random.randint(0, 4, (height, width)) returned
EmbedChannel(pattern) ==
    /\ ly_pc = "stego"
    /\ LET s == pattern_seed(lv.type, ch)
           mask == {x \in texture_mask(img_in) : pattern[x] = 0}
       IN  /\ seeded' = Append(seeded, s)
           /\ np_random' = np_draw(np_seed(np_random, s), Len(pattern))
           /\ modification_mask' = Append(modification_mask, mask)
           /\ img_array' = [img_array EXCEPT ![ch + 1] =
                               [x \in 1 .. Len(@) |->
                                   IF x \in mask THEN embed_bits(@[x], lv) ELSE @[x]]]
    /\ IF ch = 2 THEN ly_pc' = "dct" /\ ch' = 0
                 ELSE ly_pc' = ly_pc /\ ch' = ch + 1
    /\ UNCHANGED <<lv, img_in, offsets, disturbed, prev, outsideLayers>>

\* the patterns drawn: all of one value, and the values in turn; with one
\* textured pixel at most these give every selection
Patterns(w) == {[x \in 1 .. w |-> v] : v \in {0, 3}} \cup {[x \in 1 .. w |-> x % 4]}

EmbedChannelStep == \E pattern \in Patterns(Len(img_in[1])) : EmbedChannel(pattern)

\* lines 863-891: the blocks of one channel; each slice of each block draws
\* its offsets from the process-wide generator, in order.  The array of the
\* bit-embedding layer was local to it and is gone.
DctChannel ==
    /\ ly_pc = "dct"
    /\ LET sl == band_slices(lv.frequency_bands)
           size[k \in 0 .. Len(sl)] ==
               IF k = 0 THEN 0
               ELSE size[k - 1] + (sl[k][2] - sl[k][1]) * (sl[k][2] - sl[k][1])
           nb == block_count(1, Len(img_in[1]))
       IN  /\ offsets' = offsets \o
                 [b \in 1 .. nb |->
                     [c |-> ch, block |-> b, seed |-> np_random.seed,
                      first |-> np_random.drawn + (b - 1) * size[Len(sl)],
                      slices |-> sl, bounds |-> band_bounds(lv.frequency_bands),
                      scale |-> lv.intensity]]
           /\ np_random' = np_draw(np_random, nb * size[Len(sl)])
    /\ IF ch = 2 THEN ly_pc' = "done" /\ ch' = 0
                 ELSE ly_pc' = ly_pc /\ ch' = ch + 1
    /\ img_array' = <<>>
    /\ modification_mask' = <<>>
    /\ UNCHANGED <<lv, img_in, seeded, disturbed, prev, outsideLayers>>

\* another session's thread draws from np.random while the request runs
\* (app.py:15-22: the processors are shared; e.g. line 805)
ForeignDraw ==
    /\ ly_pc \in {"stego", "dct"}
    /\ ~disturbed
    /\ np_random' = np_draw(np_random, 1)
    /\ disturbed' = TRUE
    /\ UNCHANGED <<ly_pc, ch, lv, img_in, img_array, modification_mask, seeded,
                   offsets, prev, outsideLayers>>

\* the next request of the process enters the bit-embedding layer
NextRequest(v, img) ==
    /\ ly_pc = "done"
    /\ prev' = IF disturbed
               THEN prev
               ELSE [type |-> lv.type, width |-> Len(img_in[1]),
                     frequency_bands |-> lv.frequency_bands,
                     intensity |-> lv.intensity, offsets |-> offsets]
    /\ ly_pc' = "stego"
    /\ ch' = 0
    /\ lv' = v
    /\ img_in' = img
    /\ img_array' = img
    /\ modification_mask' = <<>>
    /\ seeded' = <<>>
    /\ offsets' = <<>>
    /\ disturbed' = FALSE
    /\ UNCHANGED <<np_random, outsideLayers>>

NextRequestStep == \E v \in LayerVariations, img \in LayerImages : NextRequest(v, img)

NextLayers ==
    \/ EmbedChannelStep
    \/ DctChannel
    \/ ForeignDraw
    \/ NextRequestStep

SpecLayers == InitLayers /\ [][NextLayers]_vars

(***************************************************************************)
(* Claims about the two image layers (checked under SpecLayers).           *)
(***************************************************************************)
\* a XOR b on naturals, bit by bit
RECURSIVE BitXor(_, _)
BitXor(a, b) ==
    IF a = 0 /\ b = 0 THEN 0
    ELSE (((a % 2) + (b % 2)) % 2) + 2 * BitXor(a \div 2, b \div 2)

\* C21 as stated: the selection pattern of channel c is seeded with
\* variation.type XOR c, for every type in [0, 5) and c in {0, 1, 2}.
C21_SeededWithXor ==
    \A k \in 1 .. Len(seeded) : seeded[k] = BitXor(lv.type, k - 1)

\* C21 as the code has it: the selection pattern of channel c is seeded with
\* variation.type + c, for every type in [0, 5) and c in {0, 1, 2}.
C21_SeededWithSum ==
    \A k \in 1 .. Len(seeded) : seeded[k] = lv.type + (k - 1)

\* C21 witness: the three channels of a request of type 1 were seeded, with
\* 1, 2 and 3 (1 XOR 1 is 0, 1 XOR 2 is 3).
C21_Witness ==
    /\ lv.type = 1
    /\ seeded = <<1, 2, 3>>

\* the cells [a:b, a:b] of a block
Square(a, b) == (a .. (b - 1)) \X (a .. (b - 1))

\* the cells of a block that received an offset
OffsetCells(r) == UNION {Square(r.slices[j][1], r.slices[j][2]) : j \in 1 .. Len(r.slices)}

\* the largest magnitude of an offset of slice j: bound times intensity
MaxOffset(r, j) == r.bounds[j] * r.scale

\* the slices of a block are listed from the low to the high frequencies
LowToHigh(r) ==
    \A j \in 1 .. (Len(r.slices) - 1) : r.slices[j][1] < r.slices[j + 1][1]

\* C22 as stated: with frequency_bands 'mixed' the maximum offset magnitude
\* decreases from the low to the mid to the high range.
C22_MixedMagnitudeFalls ==
    \A k \in 1 .. Len(offsets) :
        lv.frequency_bands = "mixed" =>
            /\ LowToHigh(offsets[k])
            /\ MaxOffset(offsets[k], 1) > MaxOffset(offsets[k], 2)
            /\ MaxOffset(offsets[k], 2) > MaxOffset(offsets[k], 3)

\* C22 as the code has it: with frequency_bands 'mixed' the maximum offset
\* magnitude increases from the low to the mid to the high range: 0.3, 0.6
\* and 0.9 times the intensity.
C22_MixedMagnitudeRises ==
    \A k \in 1 .. Len(offsets) :
        lv.frequency_bands = "mixed" =>
            /\ LowToHigh(offsets[k])
            /\ MaxOffset(offsets[k], 1) = 3 * lv.intensity
            /\ MaxOffset(offsets[k], 2) = 6 * lv.intensity
            /\ MaxOffset(offsets[k], 3) = 9 * lv.intensity

\* C22 witness: the frequency layer went through all three channels of a
\* request with frequency_bands 'mixed'.
C22_Witness ==
    /\ ly_pc = "done"
    /\ lv.frequency_bands = "mixed"
    /\ Len(offsets) = 3

\* C23 as stated: per 8x8 block the coefficients receiving an offset are
\* exactly [0:3,0:3] for low, [2:6,2:6] for mid, [5:8,5:8] for high, and the
\* union of these three for mixed; the others are unchanged.
C23_MixedIsUnionOfBands ==
    \A k \in 1 .. Len(offsets) :
        OffsetCells(offsets[k]) =
            (IF lv.frequency_bands = "low" THEN Square(0, 3)
             ELSE IF lv.frequency_bands = "mid" THEN Square(2, 6)
             ELSE IF lv.frequency_bands = "high" THEN Square(5, 8)
             ELSE Square(0, 3) \cup Square(2, 6) \cup Square(5, 8))

\* C23 as the code has it: per 8x8 block the coefficients receiving an offset
\* are exactly [0:3,0:3] for low, [2:6,2:6] for mid, [5:8,5:8] for high, and
\* for mixed the three squares [0:3,0:3], [3:6,3:6] and [6:8,6:8]; the others
\* are unchanged.
C23_MixedIsThreeSquares ==
    \A k \in 1 .. Len(offsets) :
        OffsetCells(offsets[k]) =
            (IF lv.frequency_bands = "low" THEN Square(0, 3)
             ELSE IF lv.frequency_bands = "mid" THEN Square(2, 6)
             ELSE IF lv.frequency_bands = "high" THEN Square(5, 8)
             ELSE Square(0, 3) \cup Square(3, 6) \cup Square(6, 8))

\* C23 witness: a block of a 'mixed' request received its offsets, and the
\* cell (2, 3) of the mid range of the single bands received none.
C23_Witness ==
    /\ lv.frequency_bands = "mixed"
    /\ offsets # <<>>
    /\ <<2, 3>> \notin OffsetCells(offsets[1])
    /\ <<7, 7>> \in OffsetCells(offsets[1])

\* C24: for every selected pixel (texture mask and pattern) the embedding
\* sets the lowest bit to type mod 2 and, the intensity not being above 0.8,
\* leaves the other seven bits unchanged; unselected pixels keep their value.
C24_OnlyLowestBitOfSelected ==
    \A c \in 1 .. Len(modification_mask) :
        /\ modification_mask[c] \subseteq texture_mask(img_in)
        /\ \A x \in 1 .. Len(img_in[c]) :
               IF x \in modification_mask[c]
               THEN /\ img_array[c][x] % 2 = lv.type % 2
                    /\ lv.intensity <= 80 =>
                           img_array[c][x] \div 2 = img_in[c][x] \div 2
               ELSE img_array[c][x] = img_in[c][x]

\* C24 witness: the three channels were embedded, a pixel of one had its
\* lowest bit changed, and a textured pixel of another was not selected.
C24_Witness ==
    /\ Len(modification_mask) = 3
    /\ \E c \in 1 .. 3 : \E x \in modification_mask[c] :
           img_array[c][x] # img_in[c][x]
    /\ \E c \in 1 .. 3 : modification_mask[c] # texture_mask(img_in)

\* what the generator was asked for when the offsets of r were drawn
Drawn(r) == [c |-> r.c, block |-> r.block, seed |-> r.seed, first |-> r.first,
             slices |-> r.slices, bounds |-> r.bounds]

DrawnSeq(o) == [k \in 1 .. Len(o) |-> Drawn(o[k])]

\* the request has finished and an earlier undisturbed request of the same
\* type and image size is on record
SameTypeAndSize ==
    /\ ly_pc = "done"
    /\ prev.width # 0
    /\ prev.type = lv.type
    /\ prev.width = Len(img_in[1])

\* C28 as stated: the bit-embedding layer reseeds the process-wide generator
\* with type + channel, so the offsets the frequency layer draws afterwards
\* are fully determined by type and image dimensions: two requests with the
\* same type and image size draw identical offset sequences.
C28_OffsetsByTypeAndSize ==
    SameTypeAndSize => DrawnSeq(offsets) = DrawnSeq(prev.offsets)

\* C28 as the code has it: the last reseed is type + 2, and two requests
\* that run undisturbed with the same type, image size and frequency_bands
\* draw identical offset sequences.
C28_OffsetsByTypeSizeAndBands ==
    /\ (ly_pc \in {"dct", "done"} /\ ~disturbed) =>
           \A k \in 1 .. Len(offsets) : offsets[k].seed = lv.type + 2
    /\ (SameTypeAndSize /\ ~disturbed /\ prev.frequency_bands = lv.frequency_bands) =>
           DrawnSeq(offsets) = DrawnSeq(prev.offsets)

\* C28 witness: two undisturbed requests of the same type, size and bands but
\* different intensity drew the same sequence.
C28_Witness ==
    /\ SameTypeAndSize
    /\ ~disturbed
    /\ prev.frequency_bands = lv.frequency_bands
    /\ prev.intensity # lv.intensity
    /\ Len(offsets) = 3
    /\ DrawnSeq(offsets) = DrawnSeq(prev.offsets)

(***************************************************************************)
(* Two browser sessions of the application (app.py).  Each session has its *)
(* own st.session_state; the processors come from get_processors(), which  *)
(* is cached for the whole process, so both sessions call the same         *)
(* VideoProcessor instance.                                                *)
(***************************************************************************)
Sessions == {1, 2}

\* app.py:16-22: the keys of the dict get_processors() returns
processor_keys == {"video", "image", "command", "file_utils"}

\* app.py:76-81: bitrates of the select box (the first, the last)
AudioQualities == {"128k", "320k"}

\* the command strings typed into the custom command box
CustomCommands == {"grayscale", "blur 2, sharpen", "hello"}

\* app.py:37-56: st.session_state of a new session
NewSessionState ==
    [processing |-> FALSE, processed_file |-> "None", current_platform |-> "None"]

NoHandler == [handler |-> "none", category |-> "", audio_quality |-> "",
              command_string |-> ""]

\* command_parser.py:114-130: the commands parse_command returns
parse_command(cmd, mt) ==
    SelectSeq(re_split(strip(lower(cmd))),
              LAMBDA part : /\ strip(part) # ""
                            /\ parse_single_command(strip(part), mt) # "None")

InitApp ==
    /\ history = <<>>
    /\ pushed = <<>>
    /\ now = 0
    /\ calls = 0
    /\ last = NoCall
    /\ ConcIdle
    /\ PipeIdle
    /\ PresetIdle
    /\ FileIdle
    /\ GenIdle
    /\ ParserIdle
    /\ LayerIdle
    /\ ap_pc = [s \in Sessions |-> "script"]
    /\ ap_rq = [s \in Sessions |-> NoHandler]
    /\ session_state = [s \in Sessions |-> NewSessionState]
    /\ audio_quality = "192k"
    /\ audio_bitrate = [s \in Sessions |-> "none"]
    /\ shown = [s \in Sessions |-> "ready"]

\* app.py:178-253 (buttons disabled while processing), 587-594: a preset
\* button is clicked and process_media_preset sets the processing flag
PresetClick(s, category, quality) ==
    /\ ap_pc[s] = "script"
    /\ ~session_state[s].processing
    /\ ap_rq' = [ap_rq EXCEPT ![s] = [handler |-> "preset", category |-> category,
                                      audio_quality |-> quality,
                                      command_string |-> ""]]
    /\ session_state' = [session_state EXCEPT ![s].processing = TRUE]
    /\ audio_bitrate' = [audio_bitrate EXCEPT ![s] = "none"]
    /\ ap_pc' = [ap_pc EXCEPT ![s] = "prepare"]
    /\ UNCHANGED <<audio_quality, shown, outsideApp>>

\* app.py:596-652: temp file, crop, conversion; for a video
\* processor.set_audio_quality(options.get('audio_quality', '192k'))
PresetPrepare(s) ==
    /\ ap_pc[s] = "prepare"
    /\ audio_quality' = IF ap_rq[s].category = "video"
                        THEN ap_rq[s].audio_quality
                        ELSE audio_quality
    /\ ap_pc' = [ap_pc EXCEPT ![s] = "apply"]
    /\ UNCHANGED <<ap_rq, session_state, audio_bitrate, shown, outsideApp>>

\* app.py:679-692, video_processor.py:174-181: apply_preset returns; the
\* audio of a video was encoded with self.audio_quality as it is then
PresetApply(s) ==
    /\ ap_pc[s] = "apply"
    /\ audio_bitrate' = IF ap_rq[s].category = "video"
                        THEN [audio_bitrate EXCEPT ![s] = audio_quality]
                        ELSE audio_bitrate
    /\ session_state' = [session_state EXCEPT ![s].processed_file = "preset_output",
                                              ![s].processing = FALSE]
    /\ ap_pc' = [ap_pc EXCEPT ![s] = "script"]
    /\ UNCHANGED <<ap_rq, audio_quality, shown, outsideApp>>

\* app.py:805-815: a step inside the try block raises (a file that cannot be
\* decoded, a failed encoder run); the handler reports the error, removes
\* the temp file and returns
PresetFails(s) ==
    /\ ap_pc[s] \in {"prepare", "apply"}
    /\ ap_pc' = [ap_pc EXCEPT ![s] = "script"]
    /\ shown' = [shown EXCEPT ![s] = "error"]
    /\ UNCHANGED <<ap_rq, session_state, audio_quality, audio_bitrate, outsideApp>>

\* app.py:817-882: process_custom_command on an image, the whole handler:
\* the parser is looked up in the processors dict, the command string is
\* parsed and applied, and the output is stored; a KeyError of the lookup is
\* caught by `except Exception`, which reports the error
CustomCommand(s, cmd) ==
    /\ ap_pc[s] = "script"
    /\ ~session_state[s].processing
    /\ ap_rq' = [ap_rq EXCEPT ![s] = [handler |-> "custom", category |-> "image",
                                      audio_quality |-> "", command_string |-> cmd]]
    /\ IF "command_parser" \in processor_keys /\ parse_command(cmd, "image") # <<>>
       THEN /\ session_state' = [session_state EXCEPT
                                    ![s].processed_file = "custom_output",
                                    ![s].current_platform = "custom"]
            /\ shown' = [shown EXCEPT ![s] = "success"]
       ELSE /\ session_state' = session_state
            /\ shown' = [shown EXCEPT ![s] = "error"]
    /\ UNCHANGED <<ap_pc, audio_quality, audio_bitrate, outsideApp>>

\* app.py:155-164, 362-371: a run of the script; with the flag set it shows
\* the progress display, sleeps and reruns
Rerun(s) ==
    /\ ap_pc[s] = "script"
    /\ shown' = [shown EXCEPT ![s] = IF session_state[s].processing
                                     THEN "processing" ELSE "ready"]
    /\ UNCHANGED <<ap_pc, ap_rq, session_state, audio_quality, audio_bitrate,
                   outsideApp>>

NextApp ==
    \/ \E s \in Sessions, category \in {"video", "image"}, quality \in AudioQualities :
           PresetClick(s, category, quality)
    \/ \E s \in Sessions : PresetPrepare(s)
    \/ \E s \in Sessions : PresetApply(s)
    \/ \E s \in Sessions : PresetFails(s)
    \/ \E s \in Sessions, cmd \in CustomCommands : CustomCommand(s, cmd)
    \/ \E s \in Sessions : Rerun(s)

SpecApp == InitApp /\ [][NextApp]_vars

(***************************************************************************)
(* Claims about the application handlers (checked under SpecApp).          *)
(***************************************************************************)
\* C26: after process_media_preset returns, st.session_state.processing is
\* False, on success and on error: the UI never stays in the processing state.
C26_ProcessingClearedOnReturn ==
    \A s \in Sessions :
        (ap_pc[s] = "script" /\ ap_rq[s].handler = "preset") =>
            /\ ~session_state[s].processing
            /\ shown[s] # "processing"

\* C27: the audio bitrate used to encode a run's audio is the value the
\* same request passed to set_audio_quality, also with two concurrent
\* sessions on the shared VideoProcessor.
C27_BitrateOfOwnRequest ==
    \A s \in Sessions :
        (ap_rq[s].handler = "preset" /\ audio_bitrate[s] # "none") =>
            audio_bitrate[s] = ap_rq[s].audio_quality

\* C29: process_custom_command, given an image and a command string with at
\* least one registered command, parses it, applies the commands and stores
\* the output path in st.session_state.processed_file with current_platform
\* 'custom'.
C29_CustomCommandStoresOutput ==
    \A s \in Sessions :
        (/\ ap_rq[s].handler = "custom"
         /\ parse_command(ap_rq[s].command_string, "image") # <<>>) =>
            /\ session_state[s].processed_file = "custom_output"
            /\ session_state[s].current_platform = "custom"

====
